---- MODULE Spec2Model ----
(***************************************************************************)
(* Query-resolution state machine of the Retail Analytics Copilot:        *)
(* router, retriever, planner, schema, nl2sql, executor, validator,       *)
(* repair, synthesizer and trace nodes (src/agent/lang_graph.py) over the  *)
(* agent logic of src/agent/graph_hybrid.py and the router module of       *)
(* src/agent/dspy_signatures.py.                                           *)
(*                                                                         *)
(* Text is modelled as TLA+ strings, handled character by character with   *)
(* Len, SubSeq and \o, so that keyword tests, patterns and repairs are     *)
(* computed on the text itself.  Python's None is the record None; a value *)
(* that may be of several Python types is a record tagged by its type.     *)
(***************************************************************************)
EXTENDS Integers, Sequences, FiniteSets, TLC

\* ------------------------------------------------------------------ bounds

\* Most words of a question drawn for the router (RouteSpec).
MaxQWords == 2
\* Most chunks one search returns (top_k = 10 in the code; the corpus is small here).
MaxChunks == 1
\* Most rows of a store result.
MaxRows == 2
\* Largest number of node executions followed for one item.
MaxSteps == 40

\* ------------------------------------------------------------------ text

None == [t |-> "null"]

Char(s, i) == SubSeq(s, i, i)

\* str.lower() on the letters the inputs use (A-Z).
LowerChar(c) ==
  CASE c = "A" -> "a" [] c = "B" -> "b" [] c = "C" -> "c" [] c = "D" -> "d"
    [] c = "E" -> "e" [] c = "F" -> "f" [] c = "G" -> "g" [] c = "H" -> "h"
    [] c = "I" -> "i" [] c = "J" -> "j" [] c = "K" -> "k" [] c = "L" -> "l"
    [] c = "M" -> "m" [] c = "N" -> "n" [] c = "O" -> "o" [] c = "P" -> "p"
    [] c = "Q" -> "q" [] c = "R" -> "r" [] c = "S" -> "s" [] c = "T" -> "t"
    [] c = "U" -> "u" [] c = "V" -> "v" [] c = "W" -> "w" [] c = "X" -> "x"
    [] c = "Y" -> "y" [] c = "Z" -> "z" [] OTHER -> c

\* "".join(pieces[lo..hi]), by halves
RECURSIVE Concat(_, _, _)
Concat(pieces, lo, hi) ==
  IF lo > hi THEN ""
  ELSE IF lo = hi THEN pieces[lo]
  ELSE LET mid == (lo + hi) \div 2 IN Concat(pieces, lo, mid) \o Concat(pieces, mid + 1, hi)

\* str.lower()
lower(s) == Concat([i \in 1..Len(s) |-> LowerChar(Char(s, i))], 1, Len(s))

\* Python's `k in s` on strings.
In(k, s) == \E i \in 1..(Len(s) - Len(k) + 1) : SubSeq(s, i, i + Len(k) - 1) = k

\* any(k in s for k in ks)
AnyIn(ks, s) == \E k \in ks : In(k, s)

IsSpace(c) == c \in {" ", "\n", "\t", "\r"}

RECURSIVE LStrip(_)
LStrip(s) ==
  IF Len(s) > 0 /\ IsSpace(Char(s, 1)) THEN LStrip(SubSeq(s, 2, Len(s))) ELSE s

RECURSIVE RStrip(_)
RStrip(s) ==
  IF Len(s) > 0 /\ IsSpace(Char(s, Len(s))) THEN RStrip(SubSeq(s, 1, Len(s) - 1)) ELSE s

\* str.strip()
strip(s) == RStrip(LStrip(s))

startswith(s, p) == Len(p) <= Len(s) /\ SubSeq(s, 1, Len(p)) = p

endswith(s, p) == Len(p) <= Len(s) /\ SubSeq(s, Len(s) - Len(p) + 1, Len(s)) = p

\* ---------------------------------------------------------------- router

ROUTES == {"rag", "sql", "hybrid"}

\* RouterModule._heuristic_predict: the router module's own fallback.
_heuristic_predict(question) ==
  LET q == lower(question) IN
  IF AnyIn({"return", "policy", "definition", "doc"}, q) THEN "rag"
  ELSE IF AnyIn({"top", "list", "rank"}, q) /\ In("revenue", q) THEN "sql"
  ELSE "hybrid"

\* What dspy's predictor does with a question: it raises, or it returns a
\* prediction whose route is None, some text, or a value that is no text.
PredRoutes ==
  {"rag", "sql", "hybrid", " SQL\n", "Hybrid", "RAG ", "", "  ", "both", "sql or rag"}

Predictions ==
  {[kind |-> "raise"], [kind |-> "none"], [kind |-> "other"]}
    \cup {[kind |-> "text", route |-> r] : r \in PredRoutes}

\* RouterModule.forward: the prediction, or on any exception the heuristic route.
\* The result is pred.route (None or a string).
forward(question, pred) ==
  CASE pred.kind = "raise" -> [t |-> "str", s |-> _heuristic_predict(question)]
    [] pred.kind = "none" -> None
    [] pred.kind = "other" -> [t |-> "other"]
    [] OTHER -> [t |-> "str", s |-> pred.route]

\* HybridAgent._fallback_route
_fallback_route(question) ==
  LET q == lower(question)
      sql_signals == {"top", "revenue", "aov", "average order value", "margin",
                      "quantity", "customer"}
      doc_signals == {"policy", "return window", "returns policy", "docs", "definition"}
  IN  IF AnyIn(doc_signals, q) /\ ~AnyIn(sql_signals, q) THEN "rag"
      ELSE IF AnyIn(sql_signals, q) THEN "hybrid"
      ELSE "rag"

\* route as it would be without the safety override of its last branch
route_without_override(question, pred) ==
  LET fallback == _fallback_route(question)
      pred_route == forward(question, pred)
      r == lower(strip(IF pred_route = None \/ pred_route.s = "" THEN fallback
                       ELSE pred_route.s))
  IN  IF pred_route.t = "other" THEN fallback
      ELSE IF r \notin ROUTES THEN fallback ELSE r

\* route as it would be without the test of the label against the enumeration
route_unvalidated(question, pred) ==
  LET fallback == _fallback_route(question)
      pred_route == forward(question, pred)
      r == lower(strip(IF pred_route = None \/ pred_route.s = "" THEN fallback
                       ELSE pred_route.s))
  IN  IF pred_route.t = "other" THEN fallback
      ELSE IF fallback \in {"sql", "hybrid"} /\ r = "rag" THEN fallback ELSE r

\* HybridAgent.route.  The router module absorbs the predictor's exception;
\* the try block raises only on a route that is no text (it has no strip, or
\* it is false and the fallback stands in for it), and then the fallback is returned.
route(question, pred) ==
  LET fallback == _fallback_route(question)
      pred_route == forward(question, pred)
      \* (pred.route or fallback).strip().lower()
      r == lower(strip(IF pred_route = None \/ pred_route.s = "" THEN fallback
                       ELSE pred_route.s))
  IN  IF pred_route.t = "other" THEN fallback
      ELSE IF r \notin ROUTES THEN fallback
      ELSE IF r # fallback /\ fallback \in {"sql", "hybrid"} /\ r = "rag" THEN fallback
      ELSE r

\* --------------------------------------------------------------- planner

KNOWN_CATEGORIES ==
  << "Beverages", "Condiments", "Confections", "Dairy Products", "Grains/Cereals",
     "Meat/Poultry", "Produce", "Seafood" >>

IsDigit(c) == c \in {"0", "1", "2", "3", "4", "5", "6", "7", "8", "9"}

AllDigits(s, i, j) == \A k \in i..j : IsDigit(Char(s, k))

\* the date pattern as it would be if it took any character for a digit
DateAt_any_character(s, i) ==
  /\ i + 9 <= Len(s)
  /\ Char(s, i + 4) = "-"
  /\ Char(s, i + 7) = "-"

\* \d{4}-\d{2}-\d{2} matched at position i
DateAt(s, i) ==
  /\ i + 9 <= Len(s)
  /\ AllDigits(s, i, i + 3) /\ Char(s, i + 4) = "-"
  /\ AllDigits(s, i + 5, i + 6) /\ Char(s, i + 7) = "-"
  /\ AllDigits(s, i + 8, i + 9)

\* \s* from position j: the first position that holds no white space
RECURSIVE SkipSpace(_, _)
SkipSpace(s, j) == IF j <= Len(s) /\ IsSpace(Char(s, j)) THEN SkipSpace(s, j + 1) ELSE j

\* (?:to|-) at position j: the position after it, or 0.  (The pattern's third
\* separator, the en dash, is outside the character set of these texts.)
AfterSep(s, j) ==
  IF j + 1 <= Len(s) /\ SubSeq(s, j, j + 1) = "to" THEN j + 2
  ELSE IF j <= Len(s) /\ Char(s, j) = "-" THEN j + 1
  ELSE 0

\* range_pattern matched at position i: the position of the second date, or 0
RangeAt(s, i) ==
  IF ~DateAt(s, i) THEN 0
  ELSE LET k == AfterSep(s, SkipSpace(s, i + 10)) IN
       IF k = 0 THEN 0
       ELSE LET d2 == SkipSpace(s, k) IN IF DateAt(s, d2) THEN d2 ELSE 0

\* extract_first_date_range: None, or the pair (start, end)
extract_first_date_range(text) ==
  IF text = "" THEN None
  ELSE LET hits == {i \in 1..Len(text) : RangeAt(text, i) # 0} IN
       IF hits # {}
       THEN LET i == CHOOSE h \in hits : \A g \in hits : h <= g
                j == RangeAt(text, i)
            IN  [t |-> "range", start |-> SubSeq(text, i, i + 9),
                 end |-> SubSeq(text, j, j + 9)]
       ELSE IF In("summer beverages 1997", lower(text))
            THEN [t |-> "range", start |-> "1997-06-01", end |-> "1997-06-30"]
       ELSE IF In("winter classics 1997", lower(text))
            THEN [t |-> "range", start |-> "1997-12-01", end |-> "1997-12-31"]
       ELSE None

\* first element of a sequence of optional values that is not None
RECURSIVE FirstSome(_)
FirstSome(xs) ==
  IF xs = <<>> THEN None ELSE IF Head(xs) # None THEN Head(xs) ELSE FirstSome(Tail(xs))

\* extract_date_range
\* extract_date_range as it would be if it read the question only
extract_date_range_question_only(question, chunks) == extract_first_date_range(question)

extract_date_range(question, chunks) ==
  LET check_targets == <<question>> \o [i \in 1..Len(chunks) |-> chunks[i].content] IN
  FirstSome([i \in 1..Len(check_targets) |-> extract_first_date_range(check_targets[i])])

\* the first known category whose lower-cased name is in the lower-cased text
CategoryIn(text) ==
  LET low == lower(text)
      hits == {i \in 1..Len(KNOWN_CATEGORIES) : In(lower(KNOWN_CATEGORIES[i]), low)}
  IN  IF hits = {} THEN None
      ELSE [t |-> "str", s |-> KNOWN_CATEGORIES[CHOOSE h \in hits : \A g \in hits : h <= g]]

\* extract_category
extract_category(question, chunks) ==
  IF CategoryIn(question) # None THEN CategoryIn(question)
  ELSE FirstSome([i \in 1..Len(chunks) |-> CategoryIn(chunks[i].content)])

\* normalize_category
normalize_category(value) ==
  IF value = None \/ value.s = "" THEN None
  ELSE IF CategoryIn(value.s) # None THEN CategoryIn(value.s)
  ELSE value

\* HybridAgent.plan: the constraint set, a mapping with the keys that were found
plan(question, chunks) ==
  LET date_range == extract_date_range(question, chunks)
      normalized_category == normalize_category(extract_category(question, chunks))
      q == lower(question)
      kpi == IF In("aov", q) \/ In("average order value", q) THEN "aov"
             ELSE IF In("gross margin", q) \/ In("margin", q) THEN "gross_margin"
             ELSE IF In("revenue", q) THEN "revenue"
             ELSE ""
      keys == (IF date_range # None THEN {"date_range"} ELSE {})
                \cup (IF normalized_category # None THEN {"category"} ELSE {})
                \cup (IF kpi # "" THEN {"kpi"} ELSE {})
  IN  [k \in keys |->
         CASE k = "date_range" -> [start |-> date_range.start, end |-> date_range.end]
           [] k = "category" -> normalized_category.s
           [] OTHER -> kpi]

\* ------------------------------------------------------------ year offset

DigitVal(c) ==
  CASE c = "0" -> 0 [] c = "1" -> 1 [] c = "2" -> 2 [] c = "3" -> 3 [] c = "4" -> 4
    [] c = "5" -> 5 [] c = "6" -> 6 [] c = "7" -> 7 [] c = "8" -> 8 [] OTHER -> 9

\* int() of a string of digits
RECURSIVE ParseInt(_)
ParseInt(s) ==
  IF Len(s) = 0 THEN 0
  ELSE 10 * ParseInt(SubSeq(s, 1, Len(s) - 1)) + DigitVal(Char(s, Len(s)))

IsLeap(y) == (y % 4 = 0 /\ y % 100 # 0) \/ y % 400 = 0

DaysInMonth(y, m) ==
  IF m = 2 THEN (IF IsLeap(y) THEN 29 ELSE 28)
  ELSE IF m \in {4, 6, 9, 11} THEN 30 ELSE 31

\* a calendar date that datetime accepts (MINYEAR..MAXYEAR)
ValidDate(y, m, d) == y \in 1..9999 /\ m \in 1..12 /\ d \in 1..DaysInMonth(y, m)

\* n in decimal, zero-padded to w digits (strftime's %Y, %m, %d)
RECURSIVE Pad(_, _)
Pad(n, w) == IF Len(ToString(n)) >= w THEN ToString(n) ELSE "0" \o Pad(n, w - 1)

\* the result of a call that may raise
Raise == [raised |-> TRUE]

\* HybridAgent._shift_date on a text of the shape dddd-dd-dd.  strptime raises
\* ValueError on a text that is no calendar date, and replace(year=...) on a
\* date that does not exist in the target year.
_shift_date(date_str, offset) ==
  IF offset = 0 THEN [raised |-> FALSE, s |-> date_str]
  ELSE LET y == ParseInt(SubSeq(date_str, 1, 4))
           m == ParseInt(SubSeq(date_str, 6, 7))
           d == ParseInt(SubSeq(date_str, 9, 10))
       IN  IF ~ValidDate(y, m, d) THEN Raise
           ELSE IF ~ValidDate(y + offset, m, d) THEN Raise
           ELSE [raised |-> FALSE,
                 s |-> Pad(y + offset, 4) \o "-" \o Pad(m, 2) \o "-" \o Pad(d, 2)]

\* HybridAgent._get_sql_date_range: None, the shifted range, or an exception
_get_sql_date_range(constraints, offset) ==
  IF "date_range" \notin DOMAIN constraints THEN [raised |-> FALSE, dr |-> None]
  ELSE LET start == _shift_date(constraints["date_range"].start, offset)
           end == _shift_date(constraints["date_range"].end, offset)
       IN  IF start.raised \/ end.raised THEN Raise
           ELSE [raised |-> FALSE, dr |-> [t |-> "range", start |-> start.s, end |-> end.s]]

\* the date filter both generate_sql and _build_filters interpolate
DateClause(dr) ==
  "DATE(o.OrderDate) BETWEEN '" \o dr.start \o "' AND '" \o dr.end \o "'"

\* HybridAgent._build_filters: its where_sql (date_clause is not used by the caller)
_build_filters(constraints, offset) ==
  LET got == _get_sql_date_range(constraints, offset) IN
  IF got.raised THEN Raise
  ELSE [raised |-> FALSE,
        where_sql |-> IF got.dr # None THEN "WHERE " \o DateClause(got.dr) ELSE ""]

\* ------------------------------------------------------- query synthesis

\* the end of the run of digits that starts at position j
RECURSIVE DigitsEnd(_, _)
DigitsEnd(s, j) == IF j <= Len(s) /\ IsDigit(Char(s, j)) THEN DigitsEnd(s, j + 1) ELSE j - 1

\* parse_top_n: re.search(r"top\s+(\d+)") on the lower-cased question; None or the number
parse_top_n(question) ==
  LET q == lower(question)
      hits == {i \in 1..Len(q) :
                 /\ i + 2 <= Len(q) /\ SubSeq(q, i, i + 2) = "top"
                 /\ SkipSpace(q, i + 3) > i + 3
                 /\ SkipSpace(q, i + 3) <= Len(q)
                 /\ IsDigit(Char(q, SkipSpace(q, i + 3)))}
  IN  IF hits = {} THEN None
      ELSE LET i == CHOOSE h \in hits : \A g \in hits : h <= g
               j == SkipSpace(q, i + 3)
           IN  [t |-> "int", v |-> ParseInt(SubSeq(q, j, DigitsEnd(q, j)))]

\* sanitize_literal: every single quote doubled
sanitize_literal(value) ==
  Concat([i \in 1..Len(value) |-> IF Char(value, i) = "'" THEN "''" ELSE Char(value, i)],
         1, Len(value))

\* the indentation of the template lines in the source
SP16 == "                "
SP23 == "                       "
SP12 == "            "

TopProductsSql(limit_n) ==
  "\n" \o SP16 \o "SELECT p.ProductName AS product,\n"
    \o SP23 \o "SUM(od.UnitPrice * od.Quantity * (1 - od.Discount)) AS revenue\n"
    \o SP16 \o "FROM \"Order Details\" od\n"
    \o SP16 \o "JOIN Products p ON p.ProductID = od.ProductID\n"
    \o SP16 \o "GROUP BY p.ProductID\n"
    \o SP16 \o "ORDER BY revenue DESC\n"
    \o SP16 \o "LIMIT " \o ToString(limit_n) \o ";\n" \o SP12

CategoryQuantitySql(where_clause) ==
  "\n" \o SP16 \o "SELECT c.CategoryName AS category,\n"
    \o SP23 \o "SUM(od.Quantity) AS quantity\n"
    \o SP16 \o "FROM \"Order Details\" od\n"
    \o SP16 \o "JOIN Orders o ON o.OrderID = od.OrderID\n"
    \o SP16 \o "JOIN Products p ON p.ProductID = od.ProductID\n"
    \o SP16 \o "JOIN Categories c ON c.CategoryID = p.CategoryID\n"
    \o SP16 \o where_clause \o "\n"
    \o SP16 \o "GROUP BY c.CategoryID\n"
    \o SP16 \o "ORDER BY quantity DESC\n"
    \o SP16 \o "LIMIT 1;\n" \o SP12

AovSql(where_clause) ==
  "\n" \o SP16 \o "SELECT SUM(od.UnitPrice * od.Quantity * (1 - od.Discount))\n"
    \o SP23 \o "/ COUNT(DISTINCT o.OrderID) AS aov\n"
    \o SP16 \o "FROM \"Order Details\" od\n"
    \o SP16 \o "JOIN Orders o ON o.OrderID = od.OrderID\n"
    \o SP16 \o where_clause \o ";\n" \o SP12

TotalRevenueSql(join_clause, where_sql) ==
  "\n" \o SP16 \o "SELECT SUM(od.UnitPrice * od.Quantity * (1 - od.Discount)) AS revenue\n"
    \o SP16 \o "FROM \"Order Details\" od\n"
    \o SP16 \o "JOIN Orders o ON o.OrderID = od.OrderID\n"
    \o SP16 \o "JOIN Products p ON p.ProductID = od.ProductID\n"
    \o SP16 \o join_clause \o "\n"
    \o SP16 \o where_sql \o ";\n" \o SP12

MarginSql(where_clause) ==
  "\n" \o SP16 \o "SELECT c.CompanyName AS customer,\n"
    \o SP23 \o "SUM(od.UnitPrice * 0.3 * od.Quantity * (1 - od.Discount)) AS margin\n"
    \o SP16 \o "FROM \"Order Details\" od\n"
    \o SP16 \o "JOIN Orders o ON o.OrderID = od.OrderID\n"
    \o SP16 \o "JOIN Customers c ON c.CustomerID = o.CustomerID\n"
    \o SP16 \o where_clause \o "\n"
    \o SP16 \o "GROUP BY c.CustomerID\n"
    \o SP16 \o "ORDER BY margin DESC\n"
    \o SP16 \o "LIMIT 1;\n" \o SP12

\* generate_sql as it would be with the return-window recognizer tried last
generate_sql_return_window_last(question, constraints, offset) ==
  LET q == strip(lower(question))
      top_n == parse_top_n(question)
      filters == _build_filters(constraints, offset)
      has_category == "category" \in DOMAIN constraints /\ constraints["category"] # ""
  IN  IF filters.raised THEN Raise
      ELSE IF In("top 3 products", q) \/ (In("top", q) /\ In("products", q) /\ In("revenue", q))
        THEN [raised |-> FALSE,
              sql |-> strip(TopProductsSql(IF top_n = None \/ top_n.v = 0 THEN 3 ELSE top_n.v))]
      ELSE IF (In("highest", q) \/ In("top", q)) /\ In("category", q) /\ In("quantity", q)
        THEN [raised |-> FALSE, sql |-> strip(CategoryQuantitySql(filters.where_sql))]
      ELSE IF In("aov", q) \/ In("average order value", q)
        THEN [raised |-> FALSE, sql |-> strip(AovSql(filters.where_sql))]
      ELSE IF In("total revenue", q) /\ has_category
        THEN LET got == _get_sql_date_range(constraints, offset)
                 extra_filter ==
                   "c.CategoryName = '" \o sanitize_literal(constraints["category"]) \o "'"
                 where_sql ==
                   "WHERE " \o extra_filter
                     \o (IF got.dr # None THEN " AND " \o DateClause(got.dr) ELSE "")
             IN  [raised |-> FALSE,
                  sql |-> strip(TotalRevenueSql(
                            "JOIN Categories c ON c.CategoryID = p.CategoryID", where_sql))]
      ELSE IF In("gross margin", q) \/ (In("margin", q) /\ In("customer", q))
        THEN [raised |-> FALSE, sql |-> strip(MarginSql(filters.where_sql))]
      ELSE IF In("return window", q) \/ In("return policy", q)
        THEN [raised |-> FALSE, sql |-> ""]
      ELSE [raised |-> FALSE, sql |-> ""]

\* HybridAgent.generate_sql: the query text, or the exception of _build_filters
generate_sql(question, constraints, offset) ==
  LET q == strip(lower(question))
      top_n == parse_top_n(question)
      filters == _build_filters(constraints, offset)
      has_category == "category" \in DOMAIN constraints /\ constraints["category"] # ""
  IN  IF filters.raised THEN Raise
      ELSE IF In("return window", q) \/ In("return policy", q)
        THEN [raised |-> FALSE, sql |-> ""]
      ELSE IF In("top 3 products", q) \/ (In("top", q) /\ In("products", q) /\ In("revenue", q))
        THEN [raised |-> FALSE,
              sql |-> strip(TopProductsSql(IF top_n = None \/ top_n.v = 0 THEN 3 ELSE top_n.v))]
      ELSE IF (In("highest", q) \/ In("top", q)) /\ In("category", q) /\ In("quantity", q)
        THEN [raised |-> FALSE, sql |-> strip(CategoryQuantitySql(filters.where_sql))]
      ELSE IF In("aov", q) \/ In("average order value", q)
        THEN [raised |-> FALSE, sql |-> strip(AovSql(filters.where_sql))]
      ELSE IF In("total revenue", q) /\ has_category
        THEN LET got == _get_sql_date_range(constraints, offset)
                 extra_filter ==
                   "c.CategoryName = '" \o sanitize_literal(constraints["category"]) \o "'"
                 where_sql ==
                   "WHERE " \o extra_filter
                     \o (IF got.dr # None THEN " AND " \o DateClause(got.dr) ELSE "")
             IN  [raised |-> FALSE,
                  sql |-> strip(TotalRevenueSql(
                            "JOIN Categories c ON c.CategoryID = p.CategoryID", where_sql))]
      ELSE IF In("gross margin", q) \/ (In("margin", q) /\ In("customer", q))
        THEN [raised |-> FALSE, sql |-> strip(MarginSql(filters.where_sql))]
      ELSE [raised |-> FALSE, sql |-> ""]

\* ------------------------------------------------------------------ store

\* A scalar of a result row: [t |-> "int", v], [t |-> "float", milli] (the
\* number in thousandths), [t |-> "str", s] or None.
IntVal(v) == [t |-> "int", v |-> v]
FloatVal(milli) == [t |-> "float", milli |-> milli]
StrVal(s) == [t |-> "str", s |-> s]

\* A row is the ordered mapping of dict(row): a sequence of (key, value) items.
\* The rows of one result share their columns.
\* An aggregate without grouping answers one row, whose value is NULL when no
\* record matched; a ranking answers any number of rows.
RevenueRows == {<<[key |-> "revenue", value |-> v]>> : v \in {FloatVal(1234567), None}}
RankedRows == {<<[key |-> "Category", value |-> StrVal("Beverages")],
                 [key |-> "Quantity", value |-> IntVal(42)]>>,
               <<[key |-> "Category", value |-> StrVal("Condiments")],
                 [key |-> "Quantity", value |-> IntVal(7)]>>}

SeqsUpTo(S, n) == UNION {[1..k -> S] : k \in 1..n}

RowLists == {<<>>} \cup {<<row>> : row \in RevenueRows} \cup SeqsUpTo(RankedRows, MaxRows)

StoreErrors == {"near \"Details\": syntax error", "no such column: o.OrderDate"}

\* SQLiteTool.execute: what the store may answer to a query.  It never raises.
execute ==
  {[success |-> TRUE, error |-> None,
    columns |-> IF rows = <<>> THEN <<>> ELSE [i \in 1..Len(rows[1]) |-> rows[1][i].key],
    rows |-> rows] : rows \in RowLists}
  \cup {[success |-> FALSE, error |-> StrVal(e), columns |-> <<>>, rows |-> <<>>] : e \in StoreErrors}

\* str.replace(old, new) for an old text of which no two occurrences can
\* overlap ("Order Details", "\n"): every occurrence is replaced
replace(s, old, new) ==
  LET at == {i \in 1..(Len(s) - Len(old) + 1) :
               Char(s, i) = Char(old, 1) /\ SubSeq(s, i, i + Len(old) - 1) = old}
  IN  IF at = {} THEN s
      ELSE Concat([i \in 1..Len(s) |->
                     IF i \in at THEN new
                     ELSE IF \E j \in at : j < i /\ i < j + Len(old) THEN ""
                     ELSE Char(s, i)],
                  1, Len(s))

\* re.sub(r"\s+", " ", s): each run of white space becomes one space
CollapseSpace(s) ==
  Concat([i \in 1..Len(s) |->
            IF ~IsSpace(Char(s, i)) THEN Char(s, i)
            ELSE IF i > 1 /\ IsSpace(Char(s, i - 1)) THEN "" ELSE " "],
         1, Len(s))

\* HybridAgent._repair_sql
_repair_sql(sql) ==
  LET quoted == IF ~In("\"Order Details\"", sql)
                THEN replace(sql, "Order Details", "\"Order Details\"") ELSE sql
      flat == strip(CollapseSpace(replace(quoted, "\n", " ")))
  IN  IF endswith(flat, ";") THEN flat ELSE flat \o ";"

\* the budget HybridAgent is constructed with
agent_max_repairs == 2

\* execute_sql as it would be if only the empty text were short-circuited
execute_sql_unstripped(sql, attempt, first, second) ==
  IF sql = ""
  THEN [sql |-> "", calls |-> 0, sent |-> <<>>,
        sql_res |-> [success |-> TRUE, rows |-> <<>>, columns |-> <<>>, error |-> None]]
  ELSE [sql |-> sql, sql_res |-> first, calls |-> 1,
        sent |-> <<[sql |-> sql, result |-> first]>>]

\* HybridAgent.execute_sql, given the store's answers to its first and second
\* query: the executed text, its result, the number of queries sent, and the
\* queries sent with the store's answer to each.
execute_sql(sql, attempt, first, second) ==
  IF strip(sql) = ""
  THEN [sql |-> "", calls |-> 0, sent |-> <<>>,
        sql_res |-> [success |-> TRUE, rows |-> <<>>, columns |-> <<>>, error |-> None]]
  ELSE IF first.success \/ attempt >= agent_max_repairs
  THEN [sql |-> sql, sql_res |-> first, calls |-> 1,
        sent |-> <<[sql |-> sql, result |-> first]>>]
  ELSE LET repaired_sql == _repair_sql(sql) IN
       IF repaired_sql = sql
       THEN [sql |-> sql, sql_res |-> first, calls |-> 1,
             sent |-> <<[sql |-> sql, result |-> first]>>]
       ELSE [sql |-> repaired_sql, sql_res |-> second, calls |-> 2,
             sent |-> <<[sql |-> sql, result |-> first],
                        [sql |-> repaired_sql, result |-> second]>>]

\* ---------------------------------------------------------------- answer

\* parse_format_hint: the "type" of the parsed hint (synthesize reads nothing else)
parse_format_hint(format_hint) ==
  LET hint == strip(format_hint) IN
  IF hint = "int" THEN "int"
  ELSE IF startswith(hint, "float") THEN "float"
  ELSE IF startswith(hint, "list") THEN "list"
  ELSE IF startswith(hint, "{") /\ endswith(hint, "}") THEN "object"
  ELSE "str"

\* str.splitlines() for texts whose only line break is \n
RECURSIVE splitlines(_)
splitlines(s) ==
  IF s = "" THEN <<>>
  ELSE LET breaks == {i \in 1..Len(s) : Char(s, i) = "\n"} IN
       IF breaks = {} THEN <<s>>
       ELSE LET i == CHOOSE b \in breaks : \A c \in breaks : b <= c IN
            <<SubSeq(s, 1, i - 1)>> \o splitlines(SubSeq(s, i + 1, Len(s)))

\* the search as it would be with the pattern (\d)\s*days, a single digit
DaysNumber_one_digit(text) ==
  LET hits == {i \in 1..Len(text) :
                 /\ IsDigit(Char(text, i))
                 /\ LET j == SkipSpace(text, i + 1) IN
                    j + 3 <= Len(text) /\ lower(SubSeq(text, j, j + 3)) = "days"}
  IN  IF hits = {} THEN None
      ELSE LET i == CHOOSE h \in hits : \A g \in hits : h <= g IN
           [t |-> "int", v |-> ParseInt(SubSeq(text, i, i))]

\* re.search(r"(\d+)\s*days", text, re.IGNORECASE): None or int(group(1))
DaysNumber(text) ==
  LET hits == {i \in 1..Len(text) :
                 /\ IsDigit(Char(text, i))
                 /\ LET j == SkipSpace(text, DigitsEnd(text, i) + 1) IN
                    j + 3 <= Len(text) /\ lower(SubSeq(text, j, j + 3)) = "days"}
  IN  IF hits = {} THEN None
      ELSE LET i == CHOOSE h \in hits : \A g \in hits : h <= g IN
           [t |-> "int", v |-> ParseInt(SubSeq(text, i, DigitsEnd(text, i)))]

\* extract_policy_number
extract_policy_number(question, chunks) ==
  LET question_lower == lower(question)
      hints == {h \in {lower(KNOWN_CATEGORIES[i]) : i \in 1..Len(KNOWN_CATEGORIES)}
                       \cup {"beverages", "condiments", "policy", "return"} :
                  In(h, question_lower)}
      HasHint(line) == \E h \in hints : In(h, lower(line))
      Candidates(content) ==
        LET hinted == SelectSeq(splitlines(content), HasHint) IN
        IF hinted = <<>> THEN <<content>> ELSE hinted
      InChunk(content) ==
        LET c == Candidates(content) IN FirstSome([i \in 1..Len(c) |-> DaysNumber(c[i])])
  IN  FirstSome([i \in 1..Len(chunks) |-> InChunk(chunks[i].content)])

\* int(value) of a row scalar: TypeError on None, ValueError on a text that is no number
int(value) ==
  CASE value.t = "int" -> [raised |-> FALSE, v |-> value.v]
    [] value.t = "float" -> [raised |-> FALSE, v |-> value.milli \div 1000]
    [] value.t = "str" ->
         (LET s == strip(value.s) IN
          IF s # "" /\ AllDigits(s, 1, Len(s)) THEN [raised |-> FALSE, v |-> ParseInt(s)]
          ELSE Raise)
    [] OTHER -> Raise

NaN == [t |-> "nan"]

\* round(x, 2) of a non-negative number of thousandths whose last digit is not 5
Round2(milli) ==
  LET r == milli % 10 IN IF r < 5 THEN milli - r ELSE milli - r + 10

\* safe_round_float(val, 2): NaN when float(val) raises
safe_round_float(val) ==
  CASE val.t = "float" -> FloatVal(Round2(val.milli))
    [] val.t = "int" -> FloatVal(1000 * val.v)
    [] val.t = "str" ->
         (LET s == strip(val.s) IN
          IF s # "" /\ AllDigits(s, 1, Len(s)) THEN FloatVal(1000 * ParseInt(s)) ELSE NaN)
    [] OTHER -> NaN

\* d[key] = value on an ordered mapping
DictSet(items, key, value) ==
  IF \E i \in 1..Len(items) : items[i].key = key
  THEN [i \in 1..Len(items) |->
          IF items[i].key = key THEN [key |-> key, value |-> value] ELSE items[i]]
  ELSE Append(items, [key |-> key, value |-> value])

\* the per-row formatting as it would be with the keys left as the store gives them
RECURSIVE FormatRow_keys_as_given(_, _)
FormatRow_keys_as_given(row, done) ==
  IF row = <<>> THEN done
  ELSE LET value == Head(row).value
           shaped == IF value.t = "float" THEN safe_round_float(value) ELSE value
       IN  FormatRow_keys_as_given(Tail(row), DictSet(done, Head(row).key, shaped))

\* the per-row formatting of the list and object branches
RECURSIVE FormatRow(_, _)
FormatRow(row, done) ==
  IF row = <<>> THEN done
  ELSE LET value == Head(row).value
           shaped == IF value.t = "float" THEN safe_round_float(value) ELSE value
       IN  FormatRow(Tail(row), DictSet(done, lower(Head(row).key), shaped))

WordChars ==
  {"a", "b", "c", "d", "e", "f", "g", "h", "i", "j", "k", "l", "m", "n", "o", "p", "q",
   "r", "s", "t", "u", "v", "w", "x", "y", "z", "_"}

\* \w
IsWord(c) == IsDigit(c) \/ LowerChar(c) \in WordChars

\* the end of the run of [\w\s] characters that starts at position j
RECURSIVE ClassEnd(_, _)
ClassEnd(s, j) ==
  IF j <= Len(s) /\ (IsWord(Char(s, j)) \/ IsSpace(Char(s, j)))
  THEN ClassEnd(s, j + 1) ELSE j - 1

\* \bFROM\s+"?([\w\s]+)"? or \bJOIN\s+"?([\w\s]+)"? matched at position i with a
\* group that is not only white space: the group and the end of the match
TableAt(s, i) ==
  IF /\ i + 4 <= Len(s)
     /\ Char(s, i) \in {"F", "f", "J", "j"}
     /\ lower(SubSeq(s, i, i + 3)) \in {"from", "join"}
     /\ (i = 1 \/ ~IsWord(Char(s, i - 1)))
     /\ IsSpace(Char(s, i + 4))
  THEN LET e == SkipSpace(s, i + 4)
           g == IF e <= Len(s) /\ Char(s, e) = "\"" THEN e + 1 ELSE e
           ge == ClassEnd(s, g)
       IN  IF ge < g THEN None
           ELSE [t |-> "match", group |-> SubSeq(s, g, ge),
                 end |-> IF ge + 1 <= Len(s) /\ Char(s, ge + 1) = "\"" THEN ge + 1 ELSE ge]
  ELSE None

\* table_pattern.findall(sql) from position pos, each group stripped; starts
\* holds the positions where the pattern matches
RECURSIVE FindTables(_, _, _)
FindTables(s, starts, pos) ==
  LET hits == {i \in starts : i >= pos} IN
  IF hits = {} THEN {}
  ELSE LET i == CHOOSE h \in hits : \A g \in hits : h <= g
           m == TableAt(s, i)
           candidate == strip(m.group)
       IN  (IF candidate # "" THEN {candidate} ELSE {}) \cup FindTables(s, starts, m.end + 1)

\* the characters of [\w\s], in code order
ASCII == "\t\n\r 0123456789ABCDEFGHIJKLMNOPQRSTUVWXYZ_abcdefghijklmnopqrstuvwxyz"

Code(c) == CHOOSE i \in 1..Len(ASCII) : Char(ASCII, i) = c

\* a < b for Python strings
RECURSIVE StrLess(_, _)
StrLess(a, b) ==
  IF Len(b) = 0 THEN FALSE
  ELSE IF Len(a) = 0 THEN TRUE
  ELSE IF Char(a, 1) # Char(b, 1) THEN Code(Char(a, 1)) < Code(Char(b, 1))
  ELSE StrLess(SubSeq(a, 2, Len(a)), SubSeq(b, 2, Len(b)))

\* sorted(set_of_strings)
RECURSIVE sorted(_)
sorted(S) ==
  IF S = {} THEN <<>>
  ELSE LET least == CHOOSE x \in S : \A y \in S \ {x} : StrLess(x, y) IN
       <<least>> \o sorted(S \ {least})

\* extract_tables_from_sql
extract_tables_from_sql(sql) ==
  IF sql = "" THEN <<>>
  ELSE sorted(FindTables(sql, {i \in 1..Len(sql) : TableAt(sql, i) # None}, 1))

\* HybridAgent._build_citations
_build_citations(sql, chunks) ==
  LET cited == SelectSeq(chunks, LAMBDA c : c.chunk_id # "") IN
  extract_tables_from_sql(sql) \o [i \in 1..Len(cited) |-> cited[i].chunk_id]

\* the int branch of synthesize, from the policy number found in the documents
IntAnswer(found, rows) ==
  LET cast == IF found = None /\ rows # <<>> THEN int(rows[1][1].value)
              ELSE [raised |-> FALSE, v |-> 0]
  IN  IF cast.raised THEN Raise
      ELSE IF found # None
      THEN [raised |-> FALSE, final_answer |-> found, confidence |-> 85,
            explanation |-> "Matched return window from policy docs."]
      ELSE IF rows # <<>>
      THEN [raised |-> FALSE, final_answer |-> IntVal(cast.v), confidence |-> 85,
            explanation |-> "Matched return window from policy docs."]
      ELSE [raised |-> FALSE, final_answer |-> IntVal(0), confidence |-> 40,
            explanation |-> "Matched return window from policy docs."]

\* the branches of synthesize on parsed_hint["type"]: final_answer, confidence
\* (in hundredths: 0.85 is 85) and explanation, or the exception of int()
FinalAnswer(hint_type, question, rows, success, chunks) ==
  CASE hint_type = "int" -> IntAnswer(extract_policy_number(question, chunks), rows)
    [] hint_type = "float" ->
         [raised |-> FALSE,
          final_answer |-> IF rows # <<>> THEN safe_round_float(rows[1][1].value)
                           ELSE FloatVal(0),
          confidence |-> IF success /\ rows # <<>> THEN 90 ELSE 50,
          explanation |-> "Computed metric via SQL over Orders/Order Details."]
    [] hint_type = "list" ->
         [raised |-> FALSE,
          final_answer |-> [t |-> "list",
                            items |-> [i \in 1..Len(rows) |-> FormatRow(rows[i], <<>>)]],
          confidence |-> IF rows # <<>> THEN 90 ELSE 50,
          explanation |-> "Ranked entities using revenue aggregation."]
    [] hint_type = "object" ->
         [raised |-> FALSE,
          final_answer |-> [t |-> "dict",
                            items |-> IF rows # <<>> THEN FormatRow(rows[1], <<>>) ELSE <<>>],
          confidence |-> IF rows # <<>> THEN 90 ELSE 50,
          explanation |-> "Derived structured answer from SQL results."]
    [] OTHER ->
         [raised |-> FALSE,
          final_answer |-> IF rows # <<>> THEN [t |-> "dict", items |-> rows[1]]
                           ELSE StrVal(""),
          confidence |-> 50,
          explanation |-> "Returned raw SQL output."]

\* the dictionary synthesize returns, once the branch has produced its answer
Output(item_id, sql, chunks, answer) ==
  IF answer.raised THEN Raise
  ELSE [raised |-> FALSE,
        out |-> [id |-> item_id, final_answer |-> answer.final_answer, sql |-> sql,
                 confidence |-> answer.confidence, explanation |-> answer.explanation,
                 citations |-> _build_citations(sql, chunks)]]

\* HybridAgent.synthesize: the final output, or the exception of int()
synthesize(item_id, question, format_hint, sql, sql_res, chunks) ==
  Output(item_id, sql, chunks,
         FinalAnswer(parse_format_hint(format_hint), question,
                     IF "rows" \in DOMAIN sql_res THEN sql_res.rows ELSE <<>>,
                     IF "success" \in DOMAIN sql_res THEN sql_res.success ELSE TRUE,
                     chunks))

\* ------------------------------------------------------------- inputs

\* The questions of the batch.
Questions ==
  {"Total revenue from Beverages in June 1997",
   "What is the return window for unopened Beverages per policy?",
   "Top 3 products by revenue",
   "AOV 1997-02-30 to 1997-03-31",
   "Customer margin 1996-02-29 - 1996-12-31",
   "hello"}

FormatHints == {"int", "float", "list[{product:str, revenue:float}]",
                "{category:str, quantity:int}", "str"}

Items == {[id |-> "q", question |-> q, format_hint |-> h] : q \in Questions, h \in FormatHints}

\* HybridAgent._compute_year_offset: the store's first order year minus 1996,
\* fixed when the agent is constructed.
YearOffsets == {0, 1}

\* The chunks of the document corpus (Retriever.load_corpus).
Corpus ==
  {[chunk_id |-> "product_policy.md::chunk_0",
    content |-> "Returns policy\nBeverages unopened: 14 days; opened: no returns."],
   [chunk_id |-> "marketing_calendar.md::chunk_1",
    content |-> "Summer Beverages 1997\nDates: 1997-06-01 to 1997-06-30"],
   [chunk_id |-> "kpi_definitions.md::chunk_2",
    content |-> "AOV = sum of order values / orders\nRefreshed every 7 days"]}

\* Retriever.search: no chunk when every similarity is zero, else the best
\* chunks in rank order, each at most once.
search ==
  {<<>>} \cup {cs \in SeqsUpTo(Corpus, MaxChunks) :
                 \A i, j \in 1..Len(cs) : i # j => cs[i] # cs[j]}

\* The store's answers to the queries of one execute_sql call; the second is
\* read only after the first reports a failure.
StoreAnswers ==
  {<<first, first>> : first \in {r \in execute : r.success}}
    \cup {<<first, second>> : first \in {r \in execute : ~r.success}, second \in execute}

\* AgentArtifacts: the store's tables and their columns, read at construction.
artifacts ==
  [tables |-> <<"Categories", "Customers", "Order Details", "Orders", "Products">>,
   table_schemas |-> [Categories |-> <<"CategoryID", "CategoryName">>]]

\* ------------------------------------------------------------ agent state

\* the fields of the AgentState dataclass: the channels of the state graph
AgentStateFields ==
  {"item_id", "question", "format_hint", "route", "retrieved_chunks", "constraints",
   "sql", "sql_res", "final_answer", "confidence", "explanation", "citations",
   "tables", "table_schemas", "repairs", "max_repairs", "needs_repair",
   "validation_error"}

\* AgentState(item_id=..., question=..., format_hint=...) with its defaults
\* and __post_init__
AgentState(item) ==
  [item_id |-> item.id, question |-> item.question, format_hint |-> item.format_hint,
   route |-> "", retrieved_chunks |-> <<>>, constraints |-> <<>>, sql |-> "",
   sql_res |-> [success |-> TRUE, rows |-> <<>>], final_answer |-> None,
   confidence |-> 0, explanation |-> "", citations |-> <<>>, tables |-> <<>>,
   table_schemas |-> <<>>, repairs |-> 0, max_repairs |-> 2, needs_repair |-> FALSE,
   validation_error |-> ""]

\* What the state graph does with a node's partial update: a key that is a
\* field of the state schema is written, any other key is dropped.
Merge(state, update) ==
  [k \in AgentStateFields |-> IF k \in DOMAIN update THEN update[k] ELSE state[k]]

\* the outcome of a node: an exception, or its update, the number of store
\* queries it sent and the lines it appended to the trace file
Raised == [raised |-> TRUE, update |-> <<>>, calls |-> 0, sent |-> <<>>, log |-> <<>>]
Ret(update) ==
  [raised |-> FALSE, update |-> update, calls |-> 0, sent |-> <<>>, log |-> <<>>]

\* ------------------------------------------------------------------ nodes

node_router(state, pred) == Ret([route |-> route(state.question, pred)])

node_retriever(state, chunks) == Ret([retrieved_chunks |-> chunks])

node_planner(state) ==
  Ret([constraints |-> plan(state.question, state.retrieved_chunks)])

node_schema(state) ==
  Ret([tables |-> artifacts.tables, table_schemas |-> artifacts.table_schemas])

node_nl2sql(state, offset) ==
  LET got == generate_sql(state.question, state.constraints, offset) IN
  IF got.raised THEN Raised ELSE Ret([sql |-> got.sql])

\* node_executor as it would be if it kept the query text it was given
node_executor_keeping_text(state, answers) ==
  LET got == execute_sql(state.sql, state.repairs, answers[1], answers[2]) IN
  [raised |-> FALSE, update |-> [sql_res |-> got.sql_res],
   calls |-> got.calls, sent |-> got.sent, log |-> <<>>]

node_executor(state, answers) ==
  LET got == execute_sql(state.sql, state.repairs, answers[1], answers[2]) IN
  [raised |-> FALSE, update |-> [sql |-> got.sql, sql_res |-> got.sql_res],
   calls |-> got.calls, sent |-> got.sent, log |-> <<>>]

node_validator(state) ==
  LET budget == state.repairs < state.max_repairs
      failed == ~state.sql_res.success
      verdict ==
        IF state.sql = "" THEN [needs_repair |-> budget, validation_error |-> "Empty SQL"]
        ELSE IF failed
          THEN [needs_repair |-> budget,
                validation_error |-> IF "error" \in DOMAIN state.sql_res
                                     THEN state.sql_res.error.s ELSE "SQL error"]
        ELSE IF state.sql_res.rows = <<>>
          THEN [needs_repair |-> budget, validation_error |-> "No rows"]
        ELSE [needs_repair |-> FALSE, validation_error |-> ""]
  IN  Ret([needs_repair |-> verdict.needs_repair,
           validation_error |-> verdict.validation_error,
           next_step |-> IF verdict.needs_repair THEN "repair" ELSE "synthesize"])

\* dict.pop(key): the mapping without the key
Without(constraints, key) == [k \in DOMAIN constraints \ {key} |-> constraints[k]]

\* node_repair as it would be if the first attempt removed both constraints
node_repair_both_at_once(state, offset) ==
  LET updated_constraints ==
        IF state.repairs = 0
        THEN Without(Without(state.constraints, "date_range"), "category")
        ELSE state.constraints
      got == generate_sql(state.question, updated_constraints, offset)
  IN  IF got.raised THEN Raised
      ELSE Ret([constraints |-> updated_constraints, sql |-> got.sql,
                repairs |-> state.repairs + 1])

\* node_repair as it would be with the two removals in the other order
node_repair_category_first(state, offset) ==
  LET updated_constraints ==
        IF state.repairs = 0 /\ "category" \in DOMAIN state.constraints
                  /\ state.constraints["category"] # ""
        THEN Without(state.constraints, "category")
        ELSE IF state.repairs = 1 /\ "date_range" \in DOMAIN state.constraints
        THEN Without(state.constraints, "date_range")
        ELSE state.constraints
      got == generate_sql(state.question, updated_constraints, offset)
  IN  IF got.raised THEN Raised
      ELSE Ret([constraints |-> updated_constraints, sql |-> got.sql,
                repairs |-> state.repairs + 1])

node_repair(state, offset) ==
  LET updated_constraints ==
        IF state.repairs = 0 /\ "date_range" \in DOMAIN state.constraints
        THEN Without(state.constraints, "date_range")
        ELSE IF state.repairs = 1 /\ "category" \in DOMAIN state.constraints
                  /\ state.constraints["category"] # ""
        THEN Without(state.constraints, "category")
        ELSE state.constraints
      got == generate_sql(state.question, updated_constraints, offset)
  IN  IF got.raised THEN Raised
      ELSE Ret([constraints |-> updated_constraints, sql |-> got.sql,
                repairs |-> state.repairs + 1])

node_synthesizer(state) ==
  LET got == synthesize(state.item_id, state.question, state.format_hint, state.sql,
                        state.sql_res, state.retrieved_chunks)
  IN  IF got.raised THEN Raised ELSE Ret(got.out)

\* node_trace as it would be if it handed the logged query back as an update
node_trace_returning_entry(state) ==
  [raised |-> FALSE, update |-> [sql |-> "", repairs |-> state.repairs], calls |-> 0,
   sent |-> <<>>,
   log |-> <<[item_id |-> state.item_id, question |-> state.question,
              route |-> state.route, constraints |-> state.constraints,
              sql |-> state.sql, sql_success |-> state.sql_res.success,
              repairs |-> state.repairs, needs_repair |-> state.needs_repair]>>]

node_trace(state) ==
  [raised |-> FALSE, update |-> <<>>, calls |-> 0, sent |-> <<>>,
   log |-> <<[item_id |-> state.item_id, question |-> state.question,
              route |-> state.route, constraints |-> state.constraints,
              sql |-> state.sql, sql_success |-> state.sql_res.success,
              repairs |-> state.repairs, needs_repair |-> state.needs_repair]>>]

\* planner_branch as it would be if only the sql route took the query path
planner_branch_sql_only(state) == IF state.route = "sql" THEN "sql" ELSE "rag"

planner_branch(state) == IF state.route \in {"sql", "hybrid"} THEN "sql" ELSE "rag"

\* validator_branch as it would be if it sent every refused result to repair
validator_branch_on_error(state) ==
  IF state.validation_error # "" THEN "repair" ELSE "synthesize"

\* validator_branch as it would be if it followed the validator's verdict
validator_branch_on_verdict(state) ==
  IF state.needs_repair THEN "repair" ELSE "synthesize"

\* getattr(state, "next_step", "synthesize")
validator_branch(state) ==
  IF "next_step" \in DOMAIN state THEN state.next_step ELSE "synthesize"

NODES == {"router", "retriever", "planner", "schema", "nl2sql", "executor",
          "validator", "repair", "synthesizer", "trace"}

\* build_graph: the node that follows node n, chosen on the merged state
build_graph(n, state) ==
  CASE n = "router" -> "retriever"
    [] n = "retriever" -> "planner"
    [] n = "planner" -> (IF planner_branch(state) = "rag" THEN "synthesizer" ELSE "schema")
    [] n = "schema" -> "nl2sql"
    [] n = "nl2sql" -> "executor"
    [] n = "executor" -> "validator"
    [] n = "validator" ->
         (IF validator_branch(state) = "repair" THEN "repair" ELSE "synthesizer")
    [] n = "repair" -> "executor"
    [] n = "synthesizer" -> "trace"
    [] OTHER -> "END"

\* --------------------------------------------------------- state machine

VARIABLES
  pc,          \* the node that runs next, "END" after trace, "raised" after an exception
  st,          \* the AgentState of the item being resolved
  year_offset, \* HybridAgent.year_offset
  trail,       \* the nodes run so far for this item, in order
  router_error, \* whether RouterModule.forward caught an exception of the predictor
  store_calls, \* the queries sent to the store for this item
  store_log,   \* those queries, each with the store's answer, in order
  trace_log,   \* the lines appended to trace.jsonl
  batch,       \* main: the items read from the batch file, in order
  outputs,     \* main: the records collected so far
  out_file     \* main: the lines of the output file (none until it is written)

vars == <<pc, st, year_offset, trail, router_error, store_calls, store_log, trace_log,
          batch, outputs, out_file>>

\* what the collaborators may answer while node n runs
Answers(n) ==
  CASE n = "router" -> Predictions
    [] n = "retriever" -> search
    [] n = "executor" -> StoreAnswers
    [] OTHER -> {<<>>}

\* the node function of node n
RunNode(n, state, answer, offset) ==
  CASE n = "router" -> node_router(state, answer)
    [] n = "retriever" -> node_retriever(state, answer)
    [] n = "planner" -> node_planner(state)
    [] n = "schema" -> node_schema(state)
    [] n = "nl2sql" -> node_nl2sql(state, offset)
    [] n = "executor" -> node_executor(state, answer)
    [] n = "validator" -> node_validator(state)
    [] n = "repair" -> node_repair(state, offset)
    [] n = "synthesizer" -> node_synthesizer(state)
    [] OTHER -> node_trace(state)

\* main: the state of one item of the batch, handed to compiled.invoke
Init ==
  /\ pc = "router"
  /\ \E item \in Items : st = AgentState(item) /\ batch = <<item>>
  /\ outputs = <<>>
  /\ out_file = <<>>
  /\ year_offset \in YearOffsets
  /\ trail = <<>>
  /\ router_error = FALSE
  /\ store_calls = 0
  /\ store_log = <<>>
  /\ trace_log = <<>>

\* the graph has a node to run (the runs of the model are cut at MaxSteps nodes)
CanStep == pc \in NODES /\ Len(trail) < MaxSteps

\* compiled.invoke, one step: the current node runs, its update is merged into
\* the state and the edges choose the next node; an exception leaves the graph.
Step ==
  /\ CanStep
  /\ \E answer \in Answers(pc) : \E r \in {RunNode(pc, st, answer, year_offset)} :
       /\ st' = IF r.raised THEN st ELSE Merge(st, r.update)
       /\ pc' = IF r.raised THEN "raised" ELSE build_graph(pc, Merge(st, r.update))
       /\ store_calls' = store_calls + r.calls
       /\ store_log' = store_log \o r.sent
       /\ trace_log' = trace_log \o r.log
       /\ router_error' = IF pc = "router" THEN answer.kind = "raise" ELSE router_error
  /\ trail' = Append(trail, pc)
  /\ UNCHANGED <<year_offset, batch, outputs, out_file>>

Next == Step

Spec == Init /\ [][Next]_vars

\* The graph runs to completion: a node that can run does run.
LiveSpec == Init /\ [][Next]_vars /\ WF_vars(Next)

\* ------------------------------------------------- the router on its own

\* the words questions are put together from: the signals of the two keyword
\* heuristics, and a word neither reads
Vocabulary ==
  {"Top", "revenue", "policy", "return", "list", "margin", "docs", "definition", "hello"}

\* the questions of at most n words
RECURSIVE Phrases(_)
Phrases(n) ==
  IF n = 0 THEN {""}
  ELSE Phrases(n - 1)
         \cup {IF p = "" THEN w ELSE p \o " " \o w : p \in Phrases(n - 1), w \in Vocabulary}

RouteInit ==
  /\ pc = "router"
  /\ \E q \in Phrases(MaxQWords) :
       \E item \in {[id |-> "q", question |-> q, format_hint |-> "str"]} :
         st = AgentState(item) /\ batch = <<item>>
  /\ outputs = <<>>
  /\ out_file = <<>>
  /\ year_offset \in YearOffsets
  /\ trail = <<>>
  /\ router_error = FALSE
  /\ store_calls = 0
  /\ store_log = <<>>
  /\ trace_log = <<>>

\* node_router runs on the question, with every behaviour of the predictor
RouteNext == pc = "router" /\ Step

RouteSpec == RouteInit /\ [][RouteNext]_vars

\* ------------------------------------------------ the repair node on its own

\* The states node_repair is written for: the validator has just refused the
\* result of a query built from the planner's constraints, and an earlier
\* repair (repairs = 1) has already dropped the date range.
RepairInit ==
  /\ pc = "repair"
  /\ year_offset \in YearOffsets
  /\ trail = <<>>
  /\ router_error \in BOOLEAN
  /\ trace_log = <<>>
  /\ \E item \in Items, chunks \in search, r \in {"sql", "hybrid"}, n \in {0, 1} :
       \E planned \in {plan(item.question, chunks)} :
       \E constraints \in {IF n = 0 THEN planned ELSE Without(planned, "date_range")} :
       \E got \in {generate_sql(item.question, constraints, year_offset)} :
         /\ ~got.raised
         /\ store_log = IF got.sql = "" THEN <<>>
                        ELSE <<[sql |-> got.sql,
                                result |-> [success |-> TRUE, error |-> None,
                                            columns |-> <<>>, rows |-> <<>>]]>>
         /\ store_calls = Len(store_log)
         /\ batch = <<item>>
         /\ outputs = <<>>
         /\ out_file = <<>>
         /\ st = [AgentState(item) EXCEPT
                    !.route = r, !.retrieved_chunks = chunks,
                    !.constraints = constraints, !.sql = got.sql, !.repairs = n,
                    !.sql_res = [success |-> TRUE, error |-> None, columns |-> <<>>,
                                 rows |-> <<>>],
                    !.tables = artifacts.tables,
                    !.table_schemas = artifacts.table_schemas,
                    !.needs_repair = TRUE, !.validation_error = "No rows"]

\* node_repair runs once and hands over to the executor
RepairNext == pc = "repair" /\ Step

RepairSpec == RepairInit /\ [][RepairNext]_vars

\* ----------------------------------------------------------------- routing

\* the route node_router has written, once it has run
Routed == trail # <<>>

\* C1: for a question whose keyword fallback is sql or hybrid, the route the
\* router resolves is never rag, whatever the predictor did (one of the three
\* labels, a label outside the enumeration, an empty label, or an exception).
C1_MetricQuestionNeverRag ==
  /\ (Routed /\ _fallback_route(st.question) \in {"sql", "hybrid"}) => st.route # "rag"
  /\ \A pred \in Predictions :
       _fallback_route(st.question) \in {"sql", "hybrid"} => route(st.question, pred) # "rag"

\* a question with a metric signal that the router module's own heuristic
\* sends to the documents has been routed, and the route is hybrid
C1_Witness ==
  /\ trail = <<"router">>
  /\ _fallback_route(st.question) = "hybrid"
  /\ _heuristic_predict(st.question) = "rag"
  /\ st.route = "hybrid"

\* C2: whenever the predictor raises, the resolved route is the route of
\* _fallback_route for that question.
C2_RaiseGivesFallback ==
  (Routed /\ router_error) => st.route = _fallback_route(st.question)

\* the trimmed, lower-cased label of a prediction is not one of the three
\* routes, or the prediction carries no label
OutOfEnumeration(pred) ==
  \/ pred.kind \in {"none", "other"}
  \/ pred.kind = "text" /\ lower(strip(pred.route)) \notin ROUTES

\* C3: the resolved route is always rag, sql or hybrid, and it is exactly the
\* fallback route when the predictor's label is outside the enumeration after
\* trimming and lower-casing, or missing.
C3_RouteInEnumeration ==
  /\ Routed => st.route \in ROUTES
  /\ \A pred \in Predictions :
       /\ route(st.question, pred) \in ROUTES
       /\ OutOfEnumeration(pred) => route(st.question, pred) = _fallback_route(st.question)

\* a question without any signal has been routed to its fallback, rag, which is
\* what a label outside the enumeration resolves to
C3_Witness ==
  /\ trail = <<"router">>
  /\ st.question = "hello"
  /\ st.route = "rag"
  /\ route(st.question, [kind |-> "text", route |-> "both"]) = "rag"

\* ------------------------------------------------------- the repair budget

\* how many times node n has been entered, the entry in progress included
Entered(n) ==
  Cardinality({i \in 1..Len(trail) : trail[i] = n}) + (IF pc = n THEN 1 ELSE 0)

\* C4: repairs <= max_repairs on every entry to the execute step and in the
\* trace record, and the execute step is entered at most max_repairs + 1 times.
C4_RepairsWithinBudget ==
  /\ pc = "executor" => st.repairs <= st.max_repairs
  /\ \A i \in 1..Len(trace_log) : trace_log[i].repairs <= st.max_repairs
  /\ Entered("executor") <= st.max_repairs + 1

\* an item went through the execute step and its trace record is written
C4_Witness ==
  /\ pc = "END"
  /\ Entered("executor") = 1
  /\ Len(trace_log) = 1
  /\ trace_log[1].repairs = 0
  /\ ~trace_log[1].sql_success

\* C5: the queries sent to the store while one item is resolved, the re-run of
\* a textually repaired query included, number at most max_repairs + 1.
C5_StoreCallsWithinBudget == store_calls <= st.max_repairs + 1

\* the store refused a query and its repaired text: two queries were sent
C5_Witness ==
  /\ pc = "END"
  /\ store_calls = 2
  /\ ~st.sql_res.success

\* the latest outcome is an empty query text, a failure of the store, or a
\* success with no row
Refused(state) ==
  \/ state.sql = ""
  \/ ~state.sql_res.success
  \/ state.sql_res.rows = <<>>

\* C6: after a validate step with repairs < max_repairs and a refused outcome
\* the next step is repair; after every other validate step it is synthesis.
C6_ValidatorSchedulesRepair ==
  [][pc = "validator" =>
       pc' = IF st.repairs < st.max_repairs /\ Refused(st) THEN "repair"
             ELSE "synthesizer"]_vars

\* C7: node_repair at repairs = 0 removes date_range if present, at
\* repairs = 1 removes category if present, and leaves the constraints alone
\* when the scheduled one is absent; in each case the query is generated
\* again from the new constraints, repairs grows by exactly 1 and the
\* executor is next.
C7_RepairRelaxesInOrder ==
  [][pc = "repair" =>
       /\ pc' = "executor"
       /\ st'.repairs = st.repairs + 1
       /\ st'.constraints =
            (IF st.repairs = 0 /\ "date_range" \in DOMAIN st.constraints
               THEN [k \in DOMAIN st.constraints \ {"date_range"} |-> st.constraints[k]]
             ELSE IF st.repairs = 1 /\ "category" \in DOMAIN st.constraints
               THEN [k \in DOMAIN st.constraints \ {"category"} |-> st.constraints[k]]
             ELSE st.constraints)
       /\ st'.sql = generate_sql(st.question, st'.constraints, year_offset).sql]_vars

\* the first repair of a question that had a date range and a category: the
\* date range is gone, the category is kept, and the new query is unfiltered by date
C7_Witness ==
  /\ trail = <<"repair">>
  /\ pc = "executor"
  /\ st.repairs = 1
  /\ "date_range" \in DOMAIN plan(st.question, st.retrieved_chunks)
  /\ "date_range" \notin DOMAIN st.constraints
  /\ "category" \in DOMAIN st.constraints
  /\ ~In("OrderDate", st.sql)

\* C8: every item reaches the terminal state, whatever the store does, after
\* exactly one answer synthesis followed by exactly one trace emission.
C8_ReachesEndOnce ==
  /\ pc # "END" => CanStep
  /\ pc = "END" =>
       /\ Entered("synthesizer") = 1
       /\ Entered("trace") = 1
       /\ SubSeq(trail, Len(trail) - 1, Len(trail)) = <<"synthesizer", "trace">>

\* the nodes run so far, and the one about to run
Path == IF pc \in NODES THEN Append(trail, pc) ELSE trail

IsPrefix(a, b) == Len(a) <= Len(b) /\ SubSeq(b, 1, Len(a)) = a

\* C9: on the rag route the planner is followed by synthesis: schema, nl2sql,
\* executor, validator and repair are never entered, sql stays empty and
\* repairs stays 0.  On the sql and hybrid routes the planner is followed by
\* schema, nl2sql, executor and validator, in that order, before synthesis.
C9_PlannerBranch ==
  /\ st.route = "rag" =>
       /\ IsPrefix(Path, <<"router", "retriever", "planner", "synthesizer", "trace">>)
       /\ st.sql = ""
       /\ st.repairs = 0
  /\ st.route \in {"sql", "hybrid"} =>
       LET QueryPath == <<"router", "retriever", "planner", "schema", "nl2sql",
                          "executor", "validator">>
       IN  IsPrefix(Path, QueryPath) \/ IsPrefix(QueryPath, Path)

\* a hybrid item has gone from the planner through the query path to synthesis
C9_Witness ==
  /\ st.route = "hybrid"
  /\ pc = "synthesizer"
  /\ Len(trail) = 7
  /\ trail[4] = "schema"

\* C10: no node raises, for any question, chunk list, year offset and store result.
C10_NoNodeRaises == pc # "raised"

\* ------------------------------------------------------------ the batch

\* Most items of a batch file.
MaxBatch == 2

\* project_contract: the output record of a resolved item, read from the
\* final state of the graph (which has no "id": the record's id is item_id)
project_contract(data) ==
  [id |-> IF "id" \in DOMAIN data /\ data["id"] # "" THEN data["id"] ELSE data.item_id,
   final_answer |-> data.final_answer, sql |-> data.sql,
   confidence |-> data.confidence, explanation |-> data.explanation,
   citations |-> data.citations]

\* the items batch files are put together from: a policy question and a
\* metric question, both asking for an integer
BatchItems ==
  {[id |-> "rag_returns", format_hint |-> "int",
    question |-> "What is the return window for unopened Beverages per policy?"],
   [id |-> "hybrid_revenue", format_hint |-> "int",
    question |-> "Total revenue from Beverages in June 1997"]}

\* main, before the first item: the batch file is read and its first item
\* is handed to the graph.  (An empty batch is written out as an empty file.)
BatchInit ==
  /\ batch \in SeqsUpTo(BatchItems, MaxBatch)
  /\ pc = "router"
  /\ st = AgentState(batch[1])
  /\ year_offset \in YearOffsets
  /\ trail = <<>>
  /\ router_error = FALSE
  /\ store_calls = 0
  /\ store_log = <<>>
  /\ trace_log = <<>>
  /\ outputs = <<>>
  /\ out_file = <<>>

\* main's loop as it would be if the state of the item just resolved were
\* handed on, with the next item's id, question and format hint written over it
Collect_reusing_state ==
  /\ pc = "END"
  /\ outputs' = Append(outputs, project_contract(st))
  /\ IF Len(outputs) + 1 < Len(batch)
     THEN /\ pc' = "router"
          /\ st' = [st EXCEPT !.item_id = batch[Len(outputs) + 2].id,
                              !.question = batch[Len(outputs) + 2].question,
                              !.format_hint = batch[Len(outputs) + 2].format_hint]
          /\ trail' = <<>>
          /\ router_error' = FALSE
          /\ store_calls' = 0
          /\ store_log' = <<>>
     ELSE /\ pc' = "write"
          /\ UNCHANGED <<st, trail, router_error, store_calls, store_log>>
  /\ UNCHANGED <<year_offset, trace_log, batch, out_file>>

\* main, the rest of one turn of its loop: compiled.invoke has returned, the
\* record is appended, and the next item (if any) is handed to the graph
Collect ==
  /\ pc = "END"
  /\ outputs' = Append(outputs, project_contract(st))
  /\ IF Len(outputs) + 1 < Len(batch)
     THEN /\ pc' = "router"
          /\ st' = AgentState(batch[Len(outputs) + 2])
          /\ trail' = <<>>
          /\ router_error' = FALSE
          /\ store_calls' = 0
          /\ store_log' = <<>>
     ELSE /\ pc' = "write"
          /\ UNCHANGED <<st, trail, router_error, store_calls, store_log>>
  /\ UNCHANGED <<year_offset, trace_log, batch, out_file>>

\* main, after its loop: every collected record is written to the output file
WriteOut ==
  /\ pc = "write"
  /\ out_file' = outputs
  /\ pc' = "done"
  /\ UNCHANGED <<st, year_offset, trail, router_error, store_calls, store_log, trace_log,
                 batch, outputs>>

BatchNext == Step \/ Collect \/ WriteOut

BatchSpec == BatchInit /\ [][BatchNext]_vars

\* main is over: the file is written, or an exception has ended the process
MainOver == pc \in {"done", "raised"}

\* C11: the batch output holds exactly one record per input item, in input
\* order, also when resolving some item fails: no output line is missing.
C11_OneRecordPerItem ==
  MainOver =>
    /\ Len(out_file) = Len(batch)
    /\ \A i \in 1..Len(batch) : out_file[i].id = batch[i].id

\* ----------------------------------------------------------- the answers

\* node_synthesizer has written the answer of the current item
Synthesized == pc \in {"trace", "END"}

\* C12: under a format hint of type float, when the final query result is a
\* success with at least one row, final_answer is a finite number: the first
\* column of the first row rounded to 2 decimals, whatever that column holds.
C12_FloatAnswerFinite ==
  (/\ Synthesized
   /\ parse_format_hint(st.format_hint) = "float"
   /\ st.sql_res.success
   /\ st.sql_res.rows # <<>>) =>
     LET first == st.sql_res.rows[1][1].value IN
     /\ st.final_answer.t = "float"
     /\ first.t = "float" => st.final_answer.milli = Round2(first.milli)
     /\ first.t = "int" => st.final_answer.milli = 1000 * first.v

\* the keys of a formatted row are lower-case, and every column of the store's
\* row is in it under its lower-cased name
FormatsRow(formatted, row) ==
  /\ \A j \in 1..Len(formatted) : lower(formatted[j].key) = formatted[j].key
  /\ \A j \in 1..Len(row) :
       \E k \in 1..Len(formatted) :
         /\ formatted[k].key = lower(row[j].key)
         /\ row[j].value.t # "float" => formatted[k].value = row[j].value

\* C13: under a format hint of type list[...], final_answer is a list with one
\* element per row of the final query result, in the order of the rows, and
\* every key of every element is lower-case.
C13_ListAnswerFollowsRows ==
  (Synthesized /\ parse_format_hint(st.format_hint) = "list") =>
    /\ st.final_answer.t = "list"
    /\ Len(st.final_answer.items) = Len(st.sql_res.rows)
    /\ \A i \in 1..Len(st.sql_res.rows) :
         FormatsRow(st.final_answer.items[i], st.sql_res.rows[i])

\* a ranking of two different rows has been turned into a list answer
C13_Witness ==
  /\ Synthesized
  /\ parse_format_hint(st.format_hint) = "list"
  /\ Len(st.sql_res.rows) = 2
  /\ st.sql_res.rows[1] # st.sql_res.rows[2]
  /\ Len(st.final_answer.items) = 2

\* ------------------------------------------------------- literal scenarios

RevenueQuestion == "Total revenue from Beverages in June 1997"

\* the planner has run on the current item
Planned == \E i \in 1..Len(trail) : trail[i] = "planner"

\* the filtered-sum template: order lines joined with orders, products and
\* categories, filtered on the category name
FilteredSum(sql, category) ==
  /\ startswith(sql, "SELECT SUM(od.UnitPrice * od.Quantity * (1 - od.Discount)) AS revenue")
  /\ In("FROM \"Order Details\" od", sql)
  /\ In("JOIN Orders o ON o.OrderID = od.OrderID", sql)
  /\ In("JOIN Products p ON p.ProductID = od.ProductID", sql)
  /\ In("JOIN Categories c ON c.CategoryID = p.CategoryID", sql)
  /\ In("WHERE c.CategoryName = '" \o category \o "'", sql)

CalendarRetrieved ==
  \E i \in 1..Len(st.retrieved_chunks) :
    st.retrieved_chunks[i].chunk_id = "marketing_calendar.md::chunk_1"

PolicyQuestion == "What is the return window for unopened Beverages per policy?"

DaysStated(chunk) ==
  CASE chunk.chunk_id = "product_policy.md::chunk_0" -> IntVal(14)
    [] chunk.chunk_id = "kpi_definitions.md::chunk_2" -> IntVal(7)
    [] OTHER -> None

ExecQueries ==
  {"SELECT SUM(od.Quantity) FROM Order Details od",
   "SELECT  o.OrderID\nFROM Order Details od\n  JOIN Orders o ON o.OrderID = od.OrderID;",
   "SELECT COUNT(*) FROM \"Order Details\";",
   "SELECT 1 FROM \"Order Details\" a JOIN Order Details b ON 1;",
   AovSql(""),
   ""}

\* node_executor is entered with some query text, at any repair count the
\* budget allows
ExecInit ==
  /\ pc = "executor"
  /\ year_offset \in YearOffsets
  /\ trail = <<>>
  /\ router_error = FALSE
  /\ store_calls = 0
  /\ store_log = <<>>
  /\ trace_log = <<>>
  /\ outputs = <<>>
  /\ out_file = <<>>
  /\ \E item \in {i \in Items : i.question = "hello"}, sql \in ExecQueries,
        n \in 0..agent_max_repairs :
       /\ batch = <<item>>
       /\ st = [AgentState(item) EXCEPT
                  !.route = "sql", !.sql = sql, !.repairs = n,
                  !.tables = artifacts.tables,
                  !.table_schemas = artifacts.table_schemas]

\* node_executor runs once and hands over to the validator
ExecNext == pc = "executor" /\ Step

ExecSpec == ExecInit /\ [][ExecNext]_vars

\* the execute step has just run
Executed == pc = "validator" /\ trail # <<>> /\ trail[Len(trail)] = "executor"

\* a mention of Order Details without its quotes
Unquoted(sql) ==
  \E i \in 1..(Len(sql) - 12) :
    /\ SubSeq(sql, i, i + 12) = "Order Details"
    /\ ~(i > 1 /\ Char(sql, i - 1) = "\"" /\ i + 13 <= Len(sql) /\ Char(sql, i + 13) = "\"")

\* white space normalised and the statement terminated
Normalised(sql) ==
  /\ ~In("\n", sql) /\ ~In("\t", sql) /\ ~In("  ", sql)
  /\ strip(sql) = sql
  /\ endswith(sql, ";")

\* the store reported a syntax failure
SyntaxFailure(result) == ~result.success /\ In("syntax error", result.error.s)

\* C16, as stated: in every execute step where the store reports a syntax
\* failure for a query in which Order Details lacks its quoting, the query is
\* repaired as text (re-quoted, white space normalised, terminated) and run
\* again exactly once within that step; the textual repair is attempted only
\* on a syntax failure, never on a success with zero rows.
C16_TextualRepair ==
  Executed =>
    /\ Len(store_log) <= 2
    /\ (Len(store_log) >= 1 /\ SyntaxFailure(store_log[1].result)
          /\ Unquoted(store_log[1].sql)) =>
         /\ Len(store_log) = 2
         /\ ~Unquoted(store_log[2].sql)
         /\ Normalised(store_log[2].sql)
         /\ st.sql = store_log[2].sql /\ st.sql_res = store_log[2].result
    /\ Len(store_log) = 2 => SyntaxFailure(store_log[1].result)

\* ------------------------------------------- the query a repair regenerates

\* the first line of a query text, which names what the template selects
FirstLine(sql) ==
  SubSeq(sql, 1, CHOOSE n \in 0..Len(sql) :
                   /\ n = Len(sql) \/ Char(sql, n + 1) = "\n"
                   /\ \A j \in 1..n : Char(sql, j) # "\n")

\* the number of filter conditions (date range, category) in a query text
FilterCount(sql) ==
  (IF In("DATE(o.OrderDate) BETWEEN", sql) THEN 1 ELSE 0)
    + (IF In("c.CategoryName = '", sql) THEN 1 ELSE 0)

\* the repair step at hand removes a key from the constraint set
DropsConstraint == pc = "repair" /\ DOMAIN st'.constraints # DOMAIN st.constraints

\* C17: whenever a repair attempt drops a constraint (date_range at attempt
\* 0, category at attempt 1), the query regenerated from the new constraint
\* set is the same intent template with strictly fewer filter conditions than
\* the query it replaces: neither identical to it nor empty.
C17_RegeneratedLessFiltered ==
  [][DropsConstraint =>
       /\ st'.sql # ""
       /\ st'.sql # st.sql
       /\ FirstLine(st'.sql) = FirstLine(st.sql)
       /\ FilterCount(st'.sql) < FilterCount(st.sql)]_vars

\* ----------------------------------------------- query synthesis on its own

\* the number of recognizer phrases in a question put to query synthesis
MaxIntents == 2

\* phrases the recognizers of generate_sql look for (the empty question has none)
IntentKeys ==
  {"return window", "return policy", "Top 3 products", "top products revenue",
   "highest category quantity", "AOV", "average order value",
   "total revenue", "gross margin", "customer margin"}

\* what was retrieved for such a question: nothing, or the campaign entry that
\* gives the planner a date range and a category
IntentChunks ==
  {<<>>} \cup {<<c>> : c \in {k \in Corpus : k.chunk_id = "marketing_calendar.md::chunk_1"}}

\* the questions made of at most n such phrases
RECURSIVE IntentQuestions(_)
IntentQuestions(n) ==
  IF n = 0 THEN {""}
  ELSE IntentQuestions(n - 1)
         \cup {IF p = "" THEN k ELSE p \o " " \o k : p \in IntentQuestions(n - 1), k \in IntentKeys}

\* node_nl2sql is entered with a question, the chunks retrieved for it and
\* the planner's constraint set, whole or as repairs have left it
NlInit ==
  /\ pc = "nl2sql"
  /\ year_offset \in YearOffsets
  /\ trail = <<>>
  /\ router_error = FALSE
  /\ store_calls = 0
  /\ store_log = <<>>
  /\ trace_log = <<>>
  /\ outputs = <<>>
  /\ out_file = <<>>
  /\ \E q \in IntentQuestions(MaxIntents), chunks \in IntentChunks,
        dropped \in SUBSET {"date_range", "category"} :
       \E item \in {[id |-> "q", question |-> q, format_hint |-> "str"]} :
       \E planned \in {plan(q, chunks)} :
         /\ batch = <<item>>
         /\ st = [AgentState(item) EXCEPT
                    !.route = "hybrid", !.retrieved_chunks = chunks,
                    !.constraints = [k \in DOMAIN planned \ dropped |-> planned[k]],
                    !.tables = artifacts.tables,
                    !.table_schemas = artifacts.table_schemas]

\* node_nl2sql runs once and hands over to the executor
NlNext == pc = "nl2sql" /\ Step

NlSpec == NlInit /\ [][NlNext]_vars

\* query synthesis has just returned
Generated == pc = "executor" /\ trail = <<"nl2sql">>

\* the recognizers in the order of the claim, over the lower-cased question
Recognized(i, q, constraints) ==
  CASE i = 1 -> In("return window", q) \/ In("return policy", q)
    [] i = 2 -> In("top 3 products", q) \/ (In("top", q) /\ In("products", q) /\ In("revenue", q))
    [] i = 3 -> (In("highest", q) \/ In("top", q)) /\ In("category", q) /\ In("quantity", q)
    [] i = 4 -> In("aov", q) \/ In("average order value", q)
    [] i = 5 -> In("total revenue", q) /\ "category" \in DOMAIN constraints
    [] i = 6 -> In("gross margin", q) \/ (In("margin", q) /\ In("customer", q))

\* what tells the template of recognizer i from the others
Marker(i) ==
  CASE i = 2 -> "AS product"
    [] i = 3 -> "AS quantity"
    [] i = 4 -> "AS aov"
    [] i = 5 -> "WHERE c.CategoryName = '"
    [] i = 6 -> "AS margin"

\* the query is the template of recognizer i (none for the first)
IsTemplateOf(i, sql) ==
  IF i = 1 THEN sql = ""
  ELSE /\ startswith(sql, "SELECT ") /\ endswith(sql, ";")
       /\ In("FROM \"Order Details\" od", sql)
       /\ \A j \in 2..6 : In(Marker(j), sql) <=> j = i

\* C18: query synthesis returns the template of the first recognizer that
\* matches, in the order return-window/policy, top-N products by revenue,
\* top/highest category by quantity, average order value, total revenue with
\* a category, gross or customer margin; return-window phrasing gives the
\* empty query whatever else matches, and so does a question that matches none.
C18_FirstRecognizerWins ==
  Generated =>
    \A q \in {lower(st.question)} :
      /\ \A i \in 1..6 :
           (Recognized(i, q, st.constraints)
              /\ \A j \in 1..(i - 1) : ~Recognized(j, q, st.constraints))
             => IsTemplateOf(i, st.sql)
      /\ (\A i \in 1..6 : ~Recognized(i, q, st.constraints)) => st.sql = ""
      /\ In("return window", q) => st.sql = ""

\* a question with return-window phrasing that also asks for total revenue,
\* with a category in the constraint set: the query is empty
C18_Witness ==
  /\ Generated
  /\ In("return window", lower(st.question))
  /\ In("total revenue", lower(st.question))
  /\ "category" \in DOMAIN st.constraints
  /\ st.sql = ""

\* ---------------------------------------------------------------- citations

\* the entity name that starts at position i of a query text: up to the
\* closing quote when quoted, else up to the next blank or terminator
EntityAt(sql, i) ==
  IF Char(sql, i) = "\""
  THEN SubSeq(sql, i + 1,
              (CHOOSE j \in (i + 1)..(Len(sql) + 1) :
                 /\ j = Len(sql) + 1 \/ Char(sql, j) = "\""
                 /\ \A k \in (i + 1)..(j - 1) : Char(sql, k) # "\"") - 1)
  ELSE SubSeq(sql, i,
              (CHOOSE j \in i..(Len(sql) + 1) :
                 /\ j = Len(sql) + 1 \/ IsSpace(Char(sql, j)) \/ Char(sql, j) = ";"
                 /\ \A k \in i..(j - 1) : ~IsSpace(Char(sql, k)) /\ Char(sql, k) # ";") - 1)

\* the entity names behind the positions ps, in the order of the positions
RECURSIVE EntitiesAt(_, _)
EntitiesAt(sql, ps) ==
  IF ps = {} THEN <<>>
  ELSE LET first == CHOOSE p \in ps : \A o \in ps : p <= o
       IN  <<EntityAt(sql, first + 5)>> \o EntitiesAt(sql, ps \ {first})

\* the entities a query refers to in its FROM and JOIN clauses, one per
\* reference, in the order of the text
EntityRefs(sql) ==
  EntitiesAt(sql, {i \in 1..(Len(sql) - 5) : SubSeq(sql, i, i + 4) \in {"FROM ", "JOIN "}})

\* C19: the citations of every final output are exactly the entity names of
\* the final query's FROM and JOIN clauses (bare names, one per reference,
\* duplicates kept) followed by the chunk id of every retrieved chunk in
\* retrieval order.
C19_CitationsAreEntitiesThenChunks ==
  Synthesized =>
    st.citations =
      EntityRefs(st.sql) \o [i \in 1..Len(st.retrieved_chunks) |-> st.retrieved_chunks[i].chunk_id]

\* ------------------------------------ the constraint set after the planner

\* node_planner is entered with the chunks retrieved for a question
PlanInit ==
  /\ pc = "planner"
  /\ year_offset \in YearOffsets
  /\ trail = <<>>
  /\ router_error = FALSE
  /\ store_calls = 0
  /\ store_log = <<>>
  /\ trace_log = <<>>
  /\ outputs = <<>>
  /\ out_file = <<>>
  /\ \E item \in Items, chunks \in search, r \in ROUTES :
       /\ batch = <<item>>
       /\ st = [AgentState(item) EXCEPT !.route = r, !.retrieved_chunks = chunks]

\* The graph from the planner on, and from the repair step on, for the items
\* whose answer is a text
LadderInit ==
  /\ PlanInit \/ (RepairInit /\ ~router_error)
  /\ st.format_hint = "str"

\* any node of the graph runs
LadderNext == pc \in NODES /\ Step

LadderSpec == LadderInit /\ [][LadderNext]_vars

\* the key the repair ladder schedules for removal at a repair count
Scheduled(repairs) ==
  IF repairs = 0 THEN {"date_range"} ELSE IF repairs = 1 THEN {"category"} ELSE {}

\* a constraint set that keeps the value of every key it has in common with
\* the one before, and has no other key
NeverAddsNorChanges(old, new) ==
  /\ DOMAIN new \subseteq DOMAIN old
  /\ \A k \in DOMAIN new : new[k] = old[k]

\* C20, as stated: once the planner has produced the constraint set, only the
\* repair step changes it, and every repair attempt removes exactly one key
\* from it, adding none and changing no value.
C20_RepairRemovesExactlyOneKey ==
  [][/\ pc \notin {"planner", "repair"} => st'.constraints = st.constraints
     /\ pc = "repair" =>
          /\ NeverAddsNorChanges(st.constraints, st'.constraints)
          /\ Cardinality(DOMAIN st.constraints \ DOMAIN st'.constraints) = 1]_vars

\* C20, amended: once the planner has produced the constraint set, only the
\* repair step changes it, and every repair attempt removes at most one key
\* from it, adding none and changing no value: exactly the key scheduled for
\* the attempt (date_range at repairs = 0, category at repairs = 1) when the
\* set holds it, and none when it does not.
C20_RepairRemovesScheduledKey ==
  [][/\ pc \notin {"planner", "repair"} => st'.constraints = st.constraints
     /\ pc = "repair" =>
          /\ NeverAddsNorChanges(st.constraints, st'.constraints)
          /\ DOMAIN st.constraints \ DOMAIN st'.constraints
               = Scheduled(st.repairs) \cap DOMAIN st.constraints]_vars

\* the second repair of a question planned with a category and a KPI has
\* removed the category alone, and the steps after it have kept the set
C20_Witness ==
  /\ pc = "END"
  /\ trail[1] = "repair"
  /\ st.repairs = 2
  /\ DOMAIN plan(st.question, st.retrieved_chunks) = {"category", "kpi"}
  /\ st.constraints = [kpi |-> "revenue"]

\* ------------------------------------------------- one item after another

\* An item whose question no recognizer of generate_sql matches and which the
\* router may send down either path of the graph
IsolationItems == {[id |-> "docs_policy", format_hint |-> "str", question |-> "policy"]}

\* main with a batch of such items
IsolationInit ==
  /\ batch \in SeqsUpTo(IsolationItems, MaxBatch)
  /\ pc = "router"
  /\ st = AgentState(batch[1])
  /\ year_offset \in YearOffsets
  /\ trail = <<>>
  /\ router_error = FALSE
  /\ store_calls = 0
  /\ store_log = <<>>
  /\ trace_log = <<>>
  /\ outputs = <<>>
  /\ out_file = <<>>

IsolationNext == Step \/ Collect \/ WriteOut

IsolationSpec == IsolationInit /\ [][IsolationNext]_vars

\* What the collaborators answer to node n when they answer as heard: the
\* predictor heard.pred, the retriever heard.chunks, the store the results of
\* heard.sent in turn
HeardBy(n, heard) ==
  CASE n = "router" -> heard.pred
    [] n = "retriever" -> heard.chunks
    [] n = "executor" ->
         (IF Len(heard.sent) >= 2 THEN <<heard.sent[1].result, heard.sent[2].result>>
          ELSE IF Len(heard.sent) = 1 THEN <<heard.sent[1].result, heard.sent[1].result>>
          ELSE <<[success |-> TRUE, error |-> None, columns |-> <<>>, rows |-> <<>>],
                 [success |-> TRUE, error |-> None, columns |-> <<>>, rows |-> <<>>]>>)
    [] OTHER -> <<>>

\* compiled.invoke on a state of its own, from node n on, the collaborators
\* answering as heard: the final state, the trace records written, whether a
\* node raised, whether the store was asked the queries of heard.sent, and
\* the exchanges of heard.sent that were not asked for
RECURSIVE Resolve(_, _, _, _, _)
RECURSIVE Resumed(_, _, _, _, _, _)
Resolve(n, state, heard, log, offset) ==
  IF n = "END"
  THEN [raised |-> FALSE, st |-> state, log |-> log, same_calls |-> TRUE,
        unheard |-> heard.sent]
  ELSE CHOOSE end \in {Resumed(n, state, heard, log, offset, r) :
                         r \in {RunNode(n, state, HeardBy(n, heard), offset)}} : TRUE

Resumed(n, state, heard, log, offset, r) ==
  IF r.raised
  THEN [raised |-> TRUE, st |-> state, log |-> log, same_calls |-> TRUE,
        unheard |-> heard.sent]
  ELSE IF Len(r.sent) > Len(heard.sent) \/ r.sent # SubSeq(heard.sent, 1, Len(r.sent))
  THEN [raised |-> FALSE, st |-> Merge(state, r.update), log |-> log,
        same_calls |-> FALSE, unheard |-> heard.sent]
  ELSE CHOOSE end \in
         {Resolve(build_graph(n, merged), merged,
                  [heard EXCEPT !.sent = SubSeq(heard.sent, Len(r.sent) + 1, Len(heard.sent))],
                  log \o r.log, offset) :
            merged \in {Merge(state, r.update)}} : TRUE

\* the graph has finished with the item at hand
Resolved == pc \in {"END", "raised"} /\ Len(outputs) < Len(batch)

\* C21: whichever items were resolved before it, an item ends in the state,
\* and with the trace record, that the graph gives for it on a state of its
\* own when predictor, retriever and store answer the same calls alike.
C21_ResolvedAsAlone ==
  Resolved =>
    \E pred \in Predictions :
      \E alone \in {Resolve("router", AgentState(batch[Len(outputs) + 1]),
                            [pred |-> pred, chunks |-> st.retrieved_chunks,
                             sent |-> store_log], <<>>, year_offset)} :
        /\ alone.same_calls /\ alone.unheard = <<>>
        /\ alone.raised = (pc = "raised")
        /\ alone.st = st
        /\ project_contract(alone.st) = project_contract(st)
        /\ pc = "END" => alone.log = <<trace_log[Len(trace_log)]>>

\* the second item of a batch is resolved, the first having taken the query
\* path and left its tables and its route behind, the second answered from
\* the documents
C21_Witness ==
  /\ Resolved /\ pc = "END"
  /\ Len(outputs) = 1
  /\ Len(trace_log) = 2
  /\ trace_log[1].route = "hybrid"
  /\ st.route = "rag"
  /\ st.tables = <<>>
  /\ st.retrieved_chunks # <<>>

\* ------------------------------------------------- date-range extraction

\* Questions with a campaign name, with two dates, with both, with neither
DateQuestions ==
  {"Revenue during Winter Classics 1997",
   "Revenue during Summer Beverages 1997",
   "AOV 1997-01-01 to 1997-01-31",
   "Winter Classics 1997 margin 1997-12-05 - 1997-12-24",
   "hello"}

\* node_planner is entered with such a question and the chunks retrieved
DateInit ==
  /\ pc = "planner"
  /\ year_offset \in YearOffsets
  /\ trail = <<>>
  /\ router_error = FALSE
  /\ store_calls = 0
  /\ store_log = <<>>
  /\ trace_log = <<>>
  /\ outputs = <<>>
  /\ out_file = <<>>
  /\ \E q \in DateQuestions, chunks \in search, r \in ROUTES :
       \E item \in {[id |-> "q", question |-> q, format_hint |-> "str"]} :
         /\ batch = <<item>>
         /\ st = [AgentState(item) EXCEPT !.route = r, !.retrieved_chunks = chunks]

\* node_planner runs once
DateNext == pc = "planner" /\ Step

DateSpec == DateInit /\ [][DateNext]_vars

\* the first explicit two-date range of a text, if it has one
ExplicitRange(text) ==
  LET hits == {i \in 1..Len(text) : RangeAt(text, i) # 0} IN
  IF hits = {} THEN None
  ELSE [t |-> "range",
        start |-> SubSeq(text, CHOOSE h \in hits : \A g \in hits : h <= g,
                         (CHOOSE h \in hits : \A g \in hits : h <= g) + 9),
        end |-> SubSeq(text, RangeAt(text, CHOOSE h \in hits : \A g \in hits : h <= g),
                       RangeAt(text, CHOOSE h \in hits : \A g \in hits : h <= g) + 9)]

\* the range of the campaign a text names, if it names one
AliasRange(text) ==
  IF In("summer beverages 1997", lower(text))
  THEN [t |-> "range", start |-> "1997-06-01", end |-> "1997-06-30"]
  ELSE IF In("winter classics 1997", lower(text))
  THEN [t |-> "range", start |-> "1997-12-01", end |-> "1997-12-31"]
  ELSE None

\* the question, then the text of each chunk in retrieval order
TextsOf(question, chunks) == <<question>> \o [i \in 1..Len(chunks) |-> chunks[i].content]

\* the first explicit range of any of the texts, else the first campaign range
ExplicitFirst(texts) ==
  IF FirstSome([i \in 1..Len(texts) |-> ExplicitRange(texts[i])]) # None
  THEN FirstSome([i \in 1..Len(texts) |-> ExplicitRange(texts[i])])
  ELSE FirstSome([i \in 1..Len(texts) |-> AliasRange(texts[i])])

\* node_planner has just run
JustPlanned == trail = <<"planner">> /\ pc \in {"schema", "synthesizer"}

\* C22: the date range the planner extracts is the first explicit two-date
\* range of the question or of a chunk, in retrieval order, and a campaign
\* range only when no text holds an explicit one: an explicit range in any
\* chunk wins over a campaign name in the question or in an earlier chunk.
C22_ExplicitRangeBeforeAlias ==
  JustPlanned =>
    \A found \in {ExplicitFirst(TextsOf(st.question, st.retrieved_chunks))} :
      IF found = None THEN "date_range" \notin DOMAIN st.constraints
      ELSE /\ "date_range" \in DOMAIN st.constraints
           /\ st.constraints["date_range"] = [start |-> found.start, end |-> found.end]

\* ------------------------------------------------ the output, once written

\* C23: the synthesizer's step leaves in the state the output that synthesize
\* returned (final_answer, sql, confidence, explanation, citations; its id is
\* the item's), the trace step changes no field of the state, and so the
\* record main projects from the final state is the one synthesis produced.
C23_OutputKeptAfterSynthesis ==
  [][/\ (pc = "synthesizer" /\ pc' = "trace") =>
          project_contract(st') =
            synthesize(st.item_id, st.question, st.format_hint, st.sql, st.sql_res,
                       st.retrieved_chunks).out
     /\ pc = "trace" =>
          /\ pc' = "END"
          /\ st' = st
          /\ project_contract(st') = project_contract(st)]_vars

\* a final state with an answer drawn from a query result, its query text
\* and citations of entities and of a chunk
C23_Witness ==
  /\ pc = "END"
  /\ st.sql # ""
  /\ st.sql_res.success /\ st.sql_res.rows # <<>>
  /\ st.final_answer # None
  /\ Len(st.citations) > Len(st.retrieved_chunks)
  /\ st.retrieved_chunks # <<>>
  /\ trace_log # <<>>

\* ------------------------------------------------- the empty query text

\* Query texts with nothing to run
EmptyQueries == {"", " ", " \n\t "}

\* node_executor is entered with such a text, at any repair count the budget
\* allows
EmptyInit ==
  /\ pc = "executor"
  /\ year_offset \in YearOffsets
  /\ trail = <<>>
  /\ router_error = FALSE
  /\ store_calls = 0
  /\ store_log = <<>>
  /\ trace_log = <<>>
  /\ outputs = <<>>
  /\ out_file = <<>>
  /\ \E item \in {i \in Items : i.question = "hello"}, sql \in EmptyQueries,
        r \in {"sql", "hybrid"}, n \in 0..agent_max_repairs :
       /\ batch = <<item>>
       /\ st = [AgentState(item) EXCEPT
                  !.route = r, !.sql = sql, !.repairs = n,
                  !.tables = artifacts.tables,
                  !.table_schemas = artifacts.table_schemas]

\* node_executor runs, then node_validator
EmptyNext == pc \in {"executor", "validator"} /\ Step

EmptySpec == EmptyInit /\ [][EmptyNext]_vars

\* C24: an execute step given an empty or whitespace-only query text makes no
\* call to the store and returns the empty text with a successful result of
\* zero rows; the validator that follows sets needs_repair while repairs <
\* max_repairs, and with repairs = max_repairs accepts the result and hands
\* over to synthesis.
C24_EmptyQueryShortCircuits ==
  [][/\ (pc = "executor" /\ strip(st.sql) = "") =>
          /\ store_calls' = store_calls /\ store_log' = store_log
          /\ st'.sql = ""
          /\ st'.sql_res.success /\ st'.sql_res.rows = <<>>
          /\ pc' = "validator"
     /\ (pc = "validator" /\ trail # <<>> /\ trail[Len(trail)] = "executor"
           /\ st.sql = "" /\ st.repairs <= st.max_repairs) =>
          /\ st'.needs_repair = (st.repairs < st.max_repairs)
          /\ st.repairs = st.max_repairs => pc' = "synthesizer"]_vars

\* a text with nothing to run went through the execute step with no store call,
\* and the validator asked for repair, the budget not being spent
C24_Witness ==
  /\ trail = <<"executor", "validator">>
  /\ batch[1].question = "hello"
  /\ st.sql = "" /\ store_calls = 0 /\ store_log = <<>>
  /\ st.sql_res.success /\ st.sql_res.rows = <<>>
  /\ st.repairs = 1
  /\ st.needs_repair /\ st.validation_error = "Empty SQL"

\* --------------------------------------------- literals put into a query

\* Questions with single quotes about a category and two dates
QuoteQuestions ==
  {"Total revenue from Beverages' OR '1'='1",
   "total revenue for 'Dairy Products' 1997-01-01 to 1997-01-31",
   "Total revenue Seafood 1997-01-01' to 1997-01-31",
   "AOV 19'7-01-01 to 1997-01-31",
   "AOV for O'Brien 1997-01-01 - 1997-01-31'; --"}

\* What may have been retrieved for them: nothing, or a chunk with single quotes
QuoteChunks ==
  {<<>>,
   <<[chunk_id |-> "marketing_calendar.md::chunk_1",
      content |-> "Summer Beverages 1997\nDates: 1997-06-01 to 1997-06-30"]>>,
   <<[chunk_id |-> "catalog.md::chunk_3",
      content |-> "'Condiments' and 'Confections'\nDates: '1997-03-01 to 1997-03-31'"]>>}

\* node_planner is entered with such a question and such chunks, on the
\* query path
QuoteInit ==
  /\ pc = "planner"
  /\ year_offset \in YearOffsets
  /\ trail = <<>>
  /\ router_error = FALSE
  /\ store_calls = 0
  /\ store_log = <<>>
  /\ trace_log = <<>>
  /\ outputs = <<>>
  /\ out_file = <<>>
  /\ \E q \in QuoteQuestions, chunks \in QuoteChunks, r \in {"sql", "hybrid"},
        h \in FormatHints :
       \E item \in {[id |-> "q", question |-> q, format_hint |-> h]} :
         /\ batch = <<item>>
         /\ st = [AgentState(item) EXCEPT !.route = r, !.retrieved_chunks = chunks]

\* node_planner, node_schema and node_nl2sql run
QuoteNext == pc \in {"planner", "schema", "nl2sql"} /\ Step

QuoteSpec == QuoteInit /\ [][QuoteNext]_vars

\* the first position of k in s, 0 when s does not hold k
IndexOf(k, s) ==
  IF ~In(k, s) THEN 0
  ELSE CHOOSE i \in 1..(Len(s) - Len(k) + 1) :
         /\ SubSeq(s, i, i + Len(k) - 1) = k
         /\ \A j \in 1..(i - 1) : SubSeq(s, j, j + Len(k) - 1) # k

\* a single quote of a literal that is not one of a doubled pair
RECURSIVE Undoubled(_)
Undoubled(lit) ==
  IF lit = "" THEN FALSE
  ELSE IF Char(lit, 1) # "'" THEN Undoubled(SubSeq(lit, 2, Len(lit)))
  ELSE IF Len(lit) >= 2 /\ Char(lit, 2) = "'" THEN Undoubled(SubSeq(lit, 3, Len(lit)))
  ELSE TRUE

\* the category literal of a query: what stands between the opening quote of
\* the category filter and the quote that closes it, before the date filter
\* or the terminator
CategoryLiteral(sql) ==
  LET from == IndexOf("c.CategoryName = '", sql) + 18
      rest == SubSeq(sql, from, Len(sql))
      upto == IF In("' AND DATE(o.OrderDate) BETWEEN '", rest)
              THEN IndexOf("' AND DATE(o.OrderDate) BETWEEN '", rest) - 1
              ELSE Len(rest) - 2
  IN  SubSeq(rest, 1, upto)

\* the two date literals of a query, ten characters each
DateLiterals(sql) ==
  LET from == IndexOf("DATE(o.OrderDate) BETWEEN '", sql) + 27
  IN  {SubSeq(sql, from, from + 9), SubSeq(sql, from + 17, from + 26)}

\* the string literals query synthesis has put into a query
Literals(sql) ==
  (IF In("c.CategoryName = '", sql) THEN {CategoryLiteral(sql)} ELSE {})
    \cup (IF In("DATE(o.OrderDate) BETWEEN '", sql) THEN DateLiterals(sql) ELSE {})

\* node_nl2sql has just written the query
QueryWritten == pc = "executor" /\ trail # <<>> /\ trail[Len(trail)] = "nl2sql"

\* C25: whatever single quotes the question and the retrieved chunks hold, no
\* string literal that query synthesis puts into a query (the category, the
\* two date bounds) holds a single quote that is not doubled, and each
\* literal is closed by a quote of the template.
C25_LiteralsQuoteSafe ==
  QueryWritten =>
    /\ \A lit \in Literals(st.sql) : ~Undoubled(lit)
    /\ In("c.CategoryName = '", st.sql) =>
         /\ "category" \in DOMAIN st.constraints
         /\ CategoryLiteral(st.sql) = sanitize_literal(st.constraints["category"])
         /\ endswith(st.sql, "';")
    /\ In("DATE(o.OrderDate) BETWEEN '", st.sql) =>
         \E i \in {IndexOf("DATE(o.OrderDate) BETWEEN '", st.sql) + 27} :
           /\ SubSeq(st.sql, i + 10, i + 16) = "' AND '"
           /\ Char(st.sql, i + 27) = "'"

\* a question with single quotes around its category and after its dates has
\* given a query with a category literal and two date literals
C25_Witness ==
  /\ QueryWritten
  /\ In("'", st.question)
  /\ In("c.CategoryName = 'Seafood' AND DATE(o.OrderDate) BETWEEN '", st.sql)
  /\ Cardinality(Literals(st.sql)) = 3

\* --------------------------------------- the query text and its result

\* answer synthesis is entered, is running or is over
AtSynthesis == pc \in {"synthesizer", "trace", "END"}

\* C26: from the entry to answer synthesis on, the query text of the state is
\* the text executed last, textual repair included, and the query result is
\* the store's answer to exactly that text; an empty text goes with the empty
\* successful result and was never sent to the store.
C26_QueryAndResultAgree ==
  AtSynthesis =>
    IF st.sql = ""
    THEN /\ st.sql_res.success /\ st.sql_res.rows = <<>>
         /\ \A i \in 1..Len(store_log) : strip(store_log[i].sql) # ""
    ELSE /\ store_log # <<>>
         /\ store_log[Len(store_log)].sql = st.sql
         /\ store_log[Len(store_log)].result = st.sql_res

\* synthesis is entered with the repaired text of a query the store first
\* refused, and with the rows the store gave for the repaired text
C26_Witness ==
  /\ pc = "synthesizer"
  /\ Len(store_log) = 2
  /\ ~store_log[1].result.success
  /\ store_log[2].sql = _repair_sql(store_log[1].sql)
  /\ store_log[2].sql # store_log[1].sql
  /\ st.sql = store_log[2].sql
  /\ st.sql_res.success /\ st.sql_res.rows # <<>>

\* ------------------------------------------- leaving the repair loop

\* C27: whenever answer synthesis or the trace step is about to run, the
\* needs_repair flag of the state is false.
C27_NoRepairPendingAtSynthesis ==
  pc \in {"synthesizer", "trace"} => ~st.needs_repair

====
